---- MODULE Spec2Model ----
(***************************************************************************)
(* Model of the signal engine of tangjy0108/Tradingsignal                  *)
(* (src/src/lib/strategy.ts): the indicator library, the swing/pattern     *)
(* detector, the two strategies and the runStrategy dispatcher with its    *)
(* bar retrieval (fetchKlinesWithFallback).                                *)
(*                                                                         *)
(* JavaScript numbers are modelled as exact rationals plus the special     *)
(* values NaN, +/-Infinity, null and undefined; arrays are sequences read  *)
(* with 0-based indices through At/SetAt, which reproduce the reads beyond *)
(* the end (undefined) and the writes beyond the end (the array grows).    *)
(***************************************************************************)
EXTENDS Integers, Sequences, FiniteSets, TLC

(***************************************************************************)
(* JavaScript values                                                       *)
(***************************************************************************)
Abs(x) == IF x < 0 THEN -x ELSE x

RECURSIVE GCD(_, _)
GCD(a, b) == IF b = 0 THEN a ELSE GCD(b, a % b)

Raw(kind, n, d) == [k |-> kind, n |-> n, d |-> d]

\* the rational n/d in lowest terms, d # 0
Num(n, d) ==
    LET g == GCD(Abs(n), Abs(d))
        s == IF d < 0 THEN -1 ELSE 1
    IN  Raw("num", (s * n) \div g, (s * d) \div g)

Int2V(n) == Raw("num", n, 1)
NaN == Raw("nan", 0, 1)
Null == Raw("null", 0, 1)
Undef == Raw("undef", 0, 1)
Inf(sign) == Raw("inf", sign, 1)

IsNum(v) == v.k = "num"
IsFinite(v) == v.k = "num"
Sign(v) == IF v.n > 0 THEN 1 ELSE IF v.n < 0 THEN -1 ELSE 0

\* ToNumber: null is 0, undefined is NaN
ToNumber(v) ==
    IF v.k = "null" THEN Int2V(0)
    ELSE IF v.k = "undef" THEN NaN
    ELSE v

\* the operations below take their operands after ToNumber
NegNum(a) ==
    IF a.k = "nan" THEN NaN
    ELSE IF a.k = "inf" THEN Inf(-a.n)
    ELSE Raw("num", -a.n, a.d)

Neg(a0) == NegNum(ToNumber(a0))

AddNum(a, b) ==
    IF a.k = "nan" \/ b.k = "nan" THEN NaN
    ELSE IF a.k = "inf" /\ b.k = "inf" THEN (IF a.n = b.n THEN a ELSE NaN)
    ELSE IF a.k = "inf" THEN a
    ELSE IF b.k = "inf" THEN b
    ELSE LET l == (a.d \div GCD(a.d, b.d)) * b.d
         IN  Num(a.n * (l \div a.d) + b.n * (l \div b.d), l)

Add(a0, b0) == AddNum(ToNumber(a0), ToNumber(b0))

Sub(a0, b0) == AddNum(ToNumber(a0), Neg(b0))

MulNum(a, b) ==
    IF a.k = "nan" \/ b.k = "nan" THEN NaN
    ELSE IF a.k = "inf" \/ b.k = "inf"
         THEN (IF Sign(a) * Sign(b) = 0 THEN NaN ELSE Inf(Sign(a) * Sign(b)))
    ELSE LET g1 == GCD(Abs(a.n), b.d)
             g2 == GCD(Abs(b.n), a.d)
         IN  Raw("num", (a.n \div g1) * (b.n \div g2), (a.d \div g2) * (b.d \div g1))

Mul(a0, b0) == MulNum(ToNumber(a0), ToNumber(b0))

DivNum(a, b) ==
    IF a.k = "nan" \/ b.k = "nan" THEN NaN
    ELSE IF a.k = "inf" /\ b.k = "inf" THEN NaN
    ELSE IF a.k = "inf" THEN Inf(IF b.n < 0 THEN -a.n ELSE a.n)
    ELSE IF b.k = "inf" THEN Int2V(0)
    ELSE IF b.n = 0 THEN (IF a.n = 0 THEN NaN ELSE Inf(Sign(a)))
    ELSE MulNum(a, Raw("num", (IF b.n < 0 THEN -b.d ELSE b.d), Abs(b.n)))

Div(a0, b0) == DivNum(ToNumber(a0), ToNumber(b0))

\* a < b on numbers; any comparison with NaN is false
LtNum(a, b) ==
    IF a.k = "nan" \/ b.k = "nan" THEN FALSE
    ELSE IF a.k = "inf" /\ b.k = "inf" THEN a.n < b.n
    ELSE IF a.k = "inf" THEN a.n < 0
    ELSE IF b.k = "inf" THEN b.n > 0
    ELSE a.n * (b.d \div GCD(a.d, b.d)) < b.n * (a.d \div GCD(a.d, b.d))

Lt(a0, b0) == LtNum(ToNumber(a0), ToNumber(b0))

Gt(a0, b0) == LtNum(ToNumber(b0), ToNumber(a0))

\* a <= b and a >= b: false with NaN
LeNum(a, b) == a.k # "nan" /\ b.k # "nan" /\ ~LtNum(b, a)

Le(a0, b0) == LeNum(ToNumber(a0), ToNumber(b0))

Ge(a0, b0) == LeNum(ToNumber(b0), ToNumber(a0))

\* a === b for two values of type number (or the same special value)
StrictEq(a, b) == a.k # "nan" /\ a = b

\* v || 0 : the falsy values null, undefined, NaN and 0 give 0
OrZero(v) == IF v.k \in {"null", "undef", "nan"} \/ (v.k = "num" /\ v.n = 0) THEN Int2V(0) ELSE v

\* the truthiness of a number-like value
Truthy(v) == ~(v.k \in {"null", "undef", "nan"} \/ (v.k = "num" /\ v.n = 0))

MathAbsNum(a) ==
    IF a.k = "nan" THEN NaN
    ELSE IF a.k = "inf" THEN Inf(1)
    ELSE Raw("num", Abs(a.n), a.d)

MathAbs(a0) == MathAbsNum(ToNumber(a0))

\* the greatest r in lo..hi with r * r <= n, for lo * lo <= n
RECURSIVE ISqrt(_, _, _)
ISqrt(n, lo, hi) ==
    IF lo >= hi THEN lo
    ELSE LET mid == (lo + hi + 1) \div 2
         IN  IF mid * mid <= n THEN ISqrt(n, mid, hi) ELSE ISqrt(n, lo, mid - 1)

\* the precision of an inexact square root
SqrtScale == 1000

\* Math.sqrt: NaN below zero, the exact root of a square, and else the root rounded down
\* to a multiple of 1 / SqrtScale (the code rounds it to a double)
MathSqrtNum(a) ==
    IF a.k = "nan" THEN NaN
    ELSE IF a.k = "inf" THEN (IF a.n > 0 THEN a ELSE NaN)
    ELSE IF a.n < 0 THEN NaN
    ELSE IF ISqrt(a.n, 0, a.n) * ISqrt(a.n, 0, a.n) = a.n /\ ISqrt(a.d, 0, a.d) * ISqrt(a.d, 0, a.d) = a.d
         THEN Raw("num", ISqrt(a.n, 0, a.n), ISqrt(a.d, 0, a.d))
    ELSE Num(ISqrt((a.n * SqrtScale * SqrtScale) \div a.d, 0, a.n * SqrtScale + SqrtScale),
             SqrtScale)

MathSqrt(a0) == MathSqrtNum(ToNumber(a0))

\* Math.max / Math.min of two arguments: NaN wins
Max2Num(a, b) == IF a.k = "nan" \/ b.k = "nan" THEN NaN ELSE IF LtNum(a, b) THEN b ELSE a

Max2(a0, b0) == Max2Num(ToNumber(a0), ToNumber(b0))

Min2Num(a, b) == IF a.k = "nan" \/ b.k = "nan" THEN NaN ELSE IF LtNum(b, a) THEN b ELSE a

Min2(a0, b0) == Min2Num(ToNumber(a0), ToNumber(b0))

\* Math.max(...xs) and Math.min(...xs): -Infinity and +Infinity on an empty list
RECURSIVE MaxFrom(_, _, _)
MaxFrom(xs, i, acc) == IF i > Len(xs) THEN acc ELSE MaxFrom(xs, i + 1, Max2(acc, xs[i]))

MathMax(xs) == MaxFrom(xs, 1, Inf(-1))

RECURSIVE MinFrom(_, _, _)
MinFrom(xs, i, acc) == IF i > Len(xs) THEN acc ELSE MinFrom(xs, i + 1, Min2(acc, xs[i]))

MathMin(xs) == MinFrom(xs, 1, Inf(1))

(***************************************************************************)
(* JavaScript arrays (0-based indices over TLA+ sequences)                 *)
(***************************************************************************)
\* arr[i]: undefined outside the array
At(arr, i) == IF i >= 0 /\ i < Len(arr) THEN arr[i + 1] ELSE Undef

\* a function over 1..n as an explicit tuple
AsTuple(f) == f \o <<>>

\* new Array(n).fill(v)
Fill(n, v) == AsTuple([i \in 1..n |-> v])

\* arr[i] = v for i >= 0: a write beyond the end grows the array, leaving holes
SetAt(arr, i, v) ==
    IF i < Len(arr) THEN [arr EXCEPT ![i + 1] = v]
    ELSE AsTuple([j \in 1..(i + 1) |->
                      IF j <= Len(arr) THEN arr[j] ELSE IF j = i + 1 THEN v ELSE Undef])

\* arr.slice(from, to) for 0 <= from
Slice(arr, from, to) ==
    LET t == IF to > Len(arr) THEN Len(arr) ELSE to
    IN  IF from >= t THEN <<>> ELSE SubSeq(arr, from + 1, t)

\* arr.slice(-n)
SliceLast(arr, n) == IF Len(arr) <= n THEN arr ELSE Slice(arr, Len(arr) - n, Len(arr))

\* arr.pop(): the last element, undefined on an empty array
Pop(arr) == IF Len(arr) = 0 THEN Undef ELSE arr[Len(arr)]

\* arr.map(f)
Map(arr, f(_)) == AsTuple([j \in 1..Len(arr) |-> f(arr[j])])

\* evaluates v before it is used further (keeps the evaluation depth of a long loop small)
Forced(v) == v = v

\* const x = v; f(x): v is computed first, once, and then used
Bind(v, f(_)) == IF Forced(v) THEN f(v) ELSE f(v)

\* for (let i = lo; i < hi; i++) st = body(i, st): the iterations run in index order,
\* the range being split in halves so that a loop over hundreds of bars evaluates
\* in logarithmic depth
RECURSIVE ForLoop(_, _, _, _)
ForLoop(body(_, _), lo, hi, st) ==
    IF lo >= hi THEN st
    ELSE IF hi - lo = 1 THEN body(lo, st)
    ELSE LET mid == (lo + hi) \div 2
             first == ForLoop(body, lo, mid, st)
         IN  IF Forced(first) THEN ForLoop(body, mid, hi, first) ELSE first

\* xs.reduce((a, b) => a + b, 0)
SumOf(xs) == ForLoop(LAMBDA i, acc: Add(acc, At(xs, i)), 0, Len(xs), Int2V(0))

(***************************************************************************)
(* Indicator library                                                       *)
(***************************************************************************)
calculateSMA(data, period) ==
    ForLoop(LAMBDA i, sma:
                SetAt(sma, i, Div(SumOf(Slice(data, i - period + 1, i + 1)), Int2V(period))),
            period - 1, Len(data), Fill(Len(data), Null))

\* a variant of calculateEMA seeded with the close at the index period - 1 alone
calculateEMALastSeed(data, period) ==
    IF Len(data) < period THEN Fill(Len(data), Null)
    ELSE Bind(Num(2, period + 1), LAMBDA k:
         ForLoop(LAMBDA i, e:
                     SetAt(e, i, Add(Mul(At(data, i), k), Mul(At(e, i - 1), Sub(Int2V(1), k)))),
                 period, Len(data),
                 SetAt(Fill(Len(data), Null), period - 1, At(data, period - 1))))

calculateEMA(data, period) ==
    IF Len(data) < period THEN Fill(Len(data), Null)
    ELSE Bind(Num(2, period + 1), LAMBDA k:
         ForLoop(LAMBDA i, e:
                     SetAt(e, i, Add(Mul(At(data, i), k), Mul(At(e, i - 1), Sub(Int2V(1), k)))),
                 period, Len(data),
                 SetAt(Fill(Len(data), Null), period - 1,
                       Div(ForLoop(LAMBDA i, acc: Add(acc, At(data, i)), 0, period, Int2V(0)),
                           Int2V(period)))))

\* a variant of rsiValue without the test for a zero average loss
rsiValueUnguarded(avgGain, avgLoss) ==
    Sub(Int2V(100), Div(Int2V(100), Add(Int2V(1), Div(avgGain, avgLoss))))

\* avgLoss === 0 ? 100 : 100 - 100 / (1 + avgGain / avgLoss)
rsiValue(avgGain, avgLoss) ==
    IF StrictEq(avgLoss, Int2V(0)) THEN Int2V(100)
    ELSE Sub(Int2V(100), Div(Int2V(100), Add(Int2V(1), Div(avgGain, avgLoss))))

\* the state of the second loop of calculateRSI: the two averages and the series
rsiState(avgGain, avgLoss, rsi, i) ==
    [avgGain |-> avgGain, avgLoss |-> avgLoss,
     rsi |-> SetAt(rsi, i, rsiValue(avgGain, avgLoss))]

\* one iteration of the second loop of calculateRSI
rsiStep(st, change, period, i) ==
    rsiState(Div(Add(Mul(st.avgGain, Int2V(period - 1)),
                     IF Gt(change, Int2V(0)) THEN change ELSE Int2V(0)),
                 Int2V(period)),
             Div(Add(Mul(st.avgLoss, Int2V(period - 1)),
                     IF Lt(change, Int2V(0)) THEN Neg(change) ELSE Int2V(0)),
                 Int2V(period)),
             st.rsi, i)

calculateRSI(data, period) ==
    IF Len(data) < period THEN Fill(Len(data), Null)
    ELSE Bind(ForLoop(LAMBDA i, st:
                          Bind(Sub(At(data, i), At(data, i - 1)), LAMBDA change:
                               IF Gt(change, Int2V(0))
                               THEN [st EXCEPT !.gains = Add(st.gains, change)]
                               ELSE [st EXCEPT !.losses = Sub(st.losses, change)]),
                      1, period + 1, [gains |-> Int2V(0), losses |-> Int2V(0)]),
              LAMBDA seed:
              ForLoop(LAMBDA i, st: rsiStep(st, Sub(At(data, i), At(data, i - 1)), period, i),
                      period + 1, Len(data),
                      rsiState(Div(seed.gains, Int2V(period)), Div(seed.losses, Int2V(period)),
                               Fill(Len(data), Null), period)).rsi)

\* macdLine[i] - signalLine[i] where both are set
macdHistogram(macdLine, signalLine) ==
    ForLoop(LAMBDA i, h:
                IF At(macdLine, i) # Null /\ At(signalLine, i) # Null
                THEN SetAt(h, i, Sub(At(macdLine, i), At(signalLine, i)))
                ELSE h,
            0, Len(macdLine), Fill(Len(macdLine), Null))

\* a variant of macdSignal that leaves the EMA at its own indices
macdSignalUnshifted(macdLine, signalEMA) ==
    ForLoop(LAMBDA i, sl: SetAt(sl, i, At(signalEMA, i)),
            0, Len(signalEMA), Fill(Len(macdLine), Null))

\* the signal line: the EMA of the set entries of the MACD line, shifted to their place
macdSignal(macdLine, signalEMA) ==
    ForLoop(LAMBDA i, sl: SetAt(sl, i + (Len(macdLine) - Len(signalEMA)), At(signalEMA, i)),
            0, Len(signalEMA), Fill(Len(macdLine), Null))

calculateMACD(data, fastPeriod, slowPeriod, signalPeriod) ==
    Bind(calculateEMA(data, fastPeriod), LAMBDA fastEMA:
    Bind(calculateEMA(data, slowPeriod), LAMBDA slowEMA:
    Bind(ForLoop(LAMBDA i, m:
                     IF At(fastEMA, i) # Null /\ At(slowEMA, i) # Null
                     THEN SetAt(m, i, Sub(At(fastEMA, i), At(slowEMA, i)))
                     ELSE m,
                 0, Len(data), Fill(Len(data), Null)),
         LAMBDA macdLine:
    Bind(macdSignal(macdLine,
                    calculateEMA(SelectSeq(macdLine, LAMBDA v: v # Null), signalPeriod)),
         LAMBDA signalLine:
         [macdLine |-> macdLine, signalLine |-> signalLine,
          histogram |-> macdHistogram(macdLine, signalLine)]))))

\* slice.reduce((acc, val) => acc + Math.pow(val - mean, 2), 0) / period
variance(slice, mean, period) ==
    Div(ForLoop(LAMBDA j, acc:
                    Add(acc, Mul(Sub(At(slice, j), mean), Sub(At(slice, j), mean))),
                0, Len(slice), Int2V(0)),
        Int2V(period))

\* upper[i] = mean + stdDev * std; lower[i] = mean - stdDev * std
bands(b, i, mean, std, stdDev) ==
    [upper |-> SetAt(b.upper, i, Add(mean, Mul(stdDev, std))),
     lower |-> SetAt(b.lower, i, Sub(mean, Mul(stdDev, std))),
     middle |-> b.middle]

calculateBollingerBands(data, period, stdDev) ==
    Bind(calculateSMA(data, period), LAMBDA sma:
         ForLoop(LAMBDA i, b:
                     bands(b, i, At(sma, i),
                           MathSqrt(variance(Slice(data, i - period + 1, i + 1), At(sma, i),
                                             period)),
                           stdDev),
                 period - 1, Len(data),
                 [upper |-> Fill(Len(data), Null), lower |-> Fill(Len(data), Null),
                  middle |-> sma]))

\* Math.max(high[i] - low[i], |high[i] - close[i-1]|, |low[i] - close[i-1]|)
trueRange(high, low, close, i) ==
    MathMax(<<Sub(At(high, i), At(low, i)),
              MathAbs(Sub(At(high, i), At(close, i - 1))),
              MathAbs(Sub(At(low, i), At(close, i - 1)))>>)

calculateATR(high, low, close, period) ==
    Bind(ForLoop(LAMBDA i, t: SetAt(t, i, trueRange(high, low, close, i)),
                 1, Len(close), Fill(Len(close), Int2V(0))),
         LAMBDA tr:
         ForLoop(LAMBDA i, atr:
                     SetAt(atr, i, Div(Add(Mul(At(atr, i - 1), Int2V(period - 1)), At(tr, i)),
                                       Int2V(period))),
                 period + 1, Len(close),
                 SetAt(Fill(Len(close), Null), period,
                       Div(ForLoop(LAMBDA i, acc: Add(acc, At(tr, i)), 1, period + 1, Int2V(0)),
                           Int2V(period)))))

\* the inner function smooth of calculateADX
smooth(data, p) ==
    ForLoop(LAMBDA i, r:
                SetAt(r, i, Add(Sub(At(r, i - 1), Div(At(r, i - 1), Int2V(p))), At(data, i))),
            p + 1, Len(data),
            SetAt(Fill(Len(data), Null), p,
                  ForLoop(LAMBDA i, acc: Add(acc, At(data, i)), 1, p + 1, Int2V(0))))

\* dx[i] of calculateADX from plusDI and minusDI
dxOfDI(plusDI, minusDI) ==
    IF StrictEq(Add(plusDI, minusDI), Int2V(0)) THEN Int2V(0)
    ELSE Mul(Div(MathAbs(Sub(plusDI, minusDI)), Add(plusDI, minusDI)), Int2V(100))

\* dx[i] of calculateADX
dxValue(smoothedPlusDM, smoothedMinusDM, smoothedTR, i) ==
    dxOfDI(Mul(Div(At(smoothedPlusDM, i), At(smoothedTR, i)), Int2V(100)),
           Mul(Div(At(smoothedMinusDM, i), At(smoothedTR, i)), Int2V(100)))

\* plusDM[i], minusDM[i] and tr[i] of calculateADX written into st
directionalMove(st, upMove, downMove, range, i) ==
    [plusDM |-> SetAt(st.plusDM, i,
                      IF Gt(upMove, downMove) /\ Gt(upMove, Int2V(0))
                      THEN upMove ELSE Int2V(0)),
     minusDM |-> SetAt(st.minusDM, i,
                       IF Gt(downMove, upMove) /\ Gt(downMove, Int2V(0))
                       THEN downMove ELSE Int2V(0)),
     tr |-> SetAt(st.tr, i, range)]

\* the series dx of calculateADX
calculateDX(high, low, close, period) ==
    Bind(ForLoop(LAMBDA i, st:
                     directionalMove(st, Sub(At(high, i), At(high, i - 1)),
                                     Sub(At(low, i - 1), At(low, i)),
                                     trueRange(high, low, close, i), i),
                 1, Len(close),
                 [plusDM |-> Fill(Len(close), Int2V(0)), minusDM |-> Fill(Len(close), Int2V(0)),
                  tr |-> Fill(Len(close), Int2V(0))]),
         LAMBDA dm:
    Bind([tr |-> smooth(dm.tr, period), plusDM |-> smooth(dm.plusDM, period),
          minusDM |-> smooth(dm.minusDM, period)],
         LAMBDA smoothed:
         ForLoop(LAMBDA i, d:
                     SetAt(d, i, dxValue(smoothed.plusDM, smoothed.minusDM, smoothed.tr, i)),
                 period, Len(close), Fill(Len(close), Null))))

calculateADX(high, low, close, period) ==
    Bind(calculateDX(high, low, close, period), LAMBDA dx:
         ForLoop(LAMBDA i, adx:
                     SetAt(adx, i, Div(Add(Mul(At(adx, i - 1), Int2V(period - 1)), At(dx, i)),
                                       Int2V(period))),
                 period * 2, Len(close),
                 SetAt(Fill(Len(close), Null), period * 2 - 1,
                       Div(ForLoop(LAMBDA i, acc: Add(acc, At(dx, i)),
                                   period, period * 2, Int2V(0)),
                           Int2V(period)))))

(***************************************************************************)
(* Program constants                                                       *)
(***************************************************************************)
SWING_N == 3
RSI_PERIOD == 14
ATR_PERIOD == 14
ADX_PERIOD == 14
EMA_REGIME_PERIOD == 200
EMA_ENTRY_PERIOD == 20
MIN_BARS_4H == 200
MIN_BARS_15M == 50
ROLLING_WINDOW == 20

(***************************************************************************)
(* Swing / pattern detector                                                *)
(***************************************************************************)
Bar(o, h, l, c) == [open |-> Int2V(o), high |-> Int2V(h), low |-> Int2V(l), close |-> Int2V(c)]

Highs(klines) == AsTuple([j \in 1..Len(klines) |-> klines[j].high])
Lows(klines) == AsTuple([j \in 1..Len(klines) |-> klines[j].low])
Closes(klines) == AsTuple([j \in 1..Len(klines) |-> klines[j].close])

\* a variant of getSwingPoints that flags a bar only when no other bar of its window
\* reaches its high (its low)
getSwingPointsStrict(klines, n) ==
    ForLoop(LAMBDA i, st:
                LET window == Slice(klines, i - n, i) \o Slice(klines, i + 1, i + n + 1)
                IN  [highs |-> IF Gt(klines[i + 1].high, MathMax(Highs(window)))
                               THEN SetAt(st.highs, i, TRUE) ELSE st.highs,
                     lows |-> IF Lt(klines[i + 1].low, MathMin(Lows(window)))
                              THEN SetAt(st.lows, i, TRUE) ELSE st.lows],
            n, Len(klines) - n,
            [highs |-> Fill(Len(klines), FALSE), lows |-> Fill(Len(klines), FALSE)])

getSwingPoints(klines, n) ==
    ForLoop(LAMBDA i, st:
                LET window == Slice(klines, i - n, i + n + 1)
                IN  [highs |-> IF StrictEq(klines[i + 1].high, MathMax(Highs(window)))
                               THEN SetAt(st.highs, i, TRUE) ELSE st.highs,
                     lows |-> IF StrictEq(klines[i + 1].low, MathMin(Lows(window)))
                              THEN SetAt(st.lows, i, TRUE) ELSE st.lows],
            n, Len(klines) - n,
            [highs |-> Fill(Len(klines), FALSE), lows |-> Fill(Len(klines), FALSE)])

\* klines.filter((_, i) => flags[i]): the bars at the flagged indices, in index order
FilterByFlag(klines, flags) ==
    ForLoop(LAMBDA i, acc: IF flags[i + 1] THEN Append(acc, klines[i + 1]) ELSE acc,
            0, Len(klines), <<>>)

\* a variant of trendOfSwings that takes equal swing values for a rise
trendOfSwingsInclusive(highs, lows) ==
    IF Len(highs) < 2 \/ Len(lows) < 2 THEN "RANGE"
    ELSE IF /\ Ge(SliceLast(highs, 2)[2], SliceLast(highs, 2)[1])
            /\ Ge(SliceLast(lows, 2)[2], SliceLast(lows, 2)[1]) THEN "BULLISH"
    ELSE IF /\ Lt(SliceLast(highs, 2)[2], SliceLast(highs, 2)[1])
            /\ Lt(SliceLast(lows, 2)[2], SliceLast(lows, 2)[1]) THEN "BEARISH"
    ELSE "RANGE"

\* the trend read off the last two swing highs and the last two swing lows
trendOfSwings(highs, lows) ==
    IF Len(highs) < 2 \/ Len(lows) < 2 THEN "RANGE"
    ELSE IF /\ Gt(SliceLast(highs, 2)[2], SliceLast(highs, 2)[1])
            /\ Gt(SliceLast(lows, 2)[2], SliceLast(lows, 2)[1]) THEN "BULLISH"
    ELSE IF /\ Lt(SliceLast(highs, 2)[2], SliceLast(highs, 2)[1])
            /\ Lt(SliceLast(lows, 2)[2], SliceLast(lows, 2)[1]) THEN "BEARISH"
    ELSE "RANGE"

\* the direction returned with a trend
directionOfTrend(trend) ==
    IF trend = "BULLISH" THEN "UP" ELSE IF trend = "BEARISH" THEN "DOWN" ELSE "null"

detectTrend(klines, swingHighs, swingLows) ==
    Bind(Highs(FilterByFlag(klines, swingHighs)), LAMBDA highs:
    Bind(Lows(FilterByFlag(klines, swingLows)), LAMBDA lows:
    Bind(trendOfSwings(highs, lows), LAMBDA trend:
         [trend |-> trend, direction |-> directionOfTrend(trend),
          highs |-> highs, lows |-> lows])))

NoImpulse == [isNull |-> TRUE, low |-> Null, high |-> Null]

\* a variant of findImpulse that knows the direction UP only
findImpulseUpOnly(klines, swingHighs, swingLows, direction) ==
    Bind(Highs(FilterByFlag(klines, swingHighs)), LAMBDA highs:
    Bind(Lows(FilterByFlag(klines, swingLows)), LAMBDA lows:
         IF Len(highs) = 0 \/ Len(lows) = 0 THEN NoImpulse
         ELSE IF direction = "UP"
         THEN [isNull |-> FALSE, low |-> lows[Len(lows)], high |-> highs[Len(highs)]]
         ELSE NoImpulse))

findImpulse(klines, swingHighs, swingLows, direction) ==
    Bind(Highs(FilterByFlag(klines, swingHighs)), LAMBDA highs:
    Bind(Lows(FilterByFlag(klines, swingLows)), LAMBDA lows:
         IF Len(highs) = 0 \/ Len(lows) = 0 THEN NoImpulse
         ELSE IF direction = "UP"
         THEN [isNull |-> FALSE, low |-> lows[Len(lows)], high |-> highs[Len(highs)]]
         ELSE IF direction = "DOWN"
         THEN [isNull |-> FALSE, low |-> lows[Len(lows)], high |-> highs[Len(highs)]]
         ELSE NoImpulse))

calculatePRZ(low, high, direction) ==
    Bind(Sub(high, low), LAMBDA diff:
         IF direction = "UP"
         THEN [prz_low |-> Sub(high, Mul(diff, Num(786, 1000))),
               prz_high |-> Sub(high, Mul(diff, Num(618, 1000)))]
         ELSE [prz_low |-> Add(low, Mul(diff, Num(618, 1000))),
               prz_high |-> Add(low, Mul(diff, Num(786, 1000)))])

\* the divergence between the last two swing lows (highs) and their RSI values
divergenceOf(lows, highs) ==
    IF /\ Len(lows) >= 2
       /\ Lt(lows[Len(lows)].low, lows[Len(lows) - 1].low)
       /\ Gt(lows[Len(lows)].rsi, lows[Len(lows) - 1].rsi) THEN "BULLISH_DIV"
    ELSE IF /\ Len(highs) >= 2
            /\ Gt(highs[Len(highs)].high, highs[Len(highs) - 1].high)
            /\ Lt(highs[Len(highs)].rsi, highs[Len(highs) - 1].rsi) THEN "BEARISH_DIV"
    ELSE "null"

detectDivergence(klines) ==
    Bind(calculateRSI(Closes(klines), RSI_PERIOD), LAMBDA rsi:
    Bind(getSwingPoints(klines, SWING_N), LAMBDA sw:
    Bind(AsTuple([j \in 1..Len(klines) |->
                     [low |-> klines[j].low, high |-> klines[j].high,
                      rsi |-> At(rsi, j - 1)]]),
         LAMBDA withRsi:
         divergenceOf(FilterByFlag(withRsi, sw.lows), FilterByFlag(withRsi, sw.highs)))))

\* a variant of engulfingOf in which the last body may end level with the previous open
engulfingOfInclusive(prev, last) ==
    [bullish |-> /\ Lt(prev.close, prev.open)
                 /\ Gt(last.close, last.open)
                 /\ Ge(last.close, prev.open)
                 /\ Lt(last.open, prev.close),
     bearish |-> /\ Gt(prev.close, prev.open)
                 /\ Lt(last.close, last.open)
                 /\ Gt(last.open, prev.close)
                 /\ Le(last.close, prev.open)]

\* the two bars compared by detectEngulfing
engulfingOf(prev, last) ==
    [bullish |-> /\ Lt(prev.close, prev.open)
                 /\ Gt(last.close, last.open)
                 /\ Gt(last.close, prev.open)
                 /\ Lt(last.open, prev.close),
     bearish |-> /\ Gt(prev.close, prev.open)
                 /\ Lt(last.close, last.open)
                 /\ Gt(last.open, prev.close)
                 /\ Lt(last.close, prev.open)]

\* defined for Len(klines) >= 2; with fewer bars prev is undefined and prev.close throws
detectEngulfing(klines) == engulfingOf(klines[Len(klines) - 1], klines[Len(klines)])

(***************************************************************************)
(* Strategy results                                                        *)
(***************************************************************************)
Signal(symbol, regime, price, direction, entry_low, entry_high, stop, target, rr, logs) ==
    [kind |-> "signal", symbol |-> symbol, regime |-> regime, price |-> price,
     direction |-> direction, entry_low |-> entry_low, entry_high |-> entry_high,
     stop |-> stop, target |-> target, rr |-> rr, logs |-> logs]

\* a value that is no StrategyResult object: null, or a thrown error
NoSignal(kind) ==
    [kind |-> kind, symbol |-> "", regime |-> "", price |-> Null, direction |-> "",
     entry_low |-> Null, entry_high |-> Null, stop |-> Null, target |-> Null, rr |-> Null,
     logs |-> <<>>]

NullResult == NoSignal("null")
Pending == NoSignal("pending")

\* an error thrown out of a strategy, e.g. a TypeError on reading a field of undefined
Thrown(error) == [kind |-> "throw", error |-> error]

(***************************************************************************)
(* Trend-regime strategy                                                   *)
(***************************************************************************)
\* a variant of classifyRegime that tests the WEAK_TREND threshold before the
\* STRONG_TREND one, so that nothing is ever classified STRONG_TREND
classifyRegimeWeakFirst(currentAdx, slope) ==
    IF Gt(currentAdx, Int2V(20)) THEN "WEAK_TREND"
    ELSE IF Gt(currentAdx, Int2V(25)) /\ Gt(MathAbs(slope), Num(5, 100)) THEN "STRONG_TREND"
    ELSE IF Lt(currentAdx, Int2V(18)) THEN "STRONG_RANGE"
    ELSE "WEAK_RANGE"

\* a variant of classifyRegime whose thresholds are inclusive
classifyRegimeInclusive(currentAdx, slope) ==
    IF Ge(currentAdx, Int2V(25)) /\ Ge(MathAbs(slope), Num(5, 100)) THEN "STRONG_TREND"
    ELSE IF Ge(currentAdx, Int2V(20)) THEN "WEAK_TREND"
    ELSE IF Le(currentAdx, Int2V(18)) THEN "STRONG_RANGE"
    ELSE "WEAK_RANGE"

classifyRegime(currentAdx, slope) ==
    IF Gt(currentAdx, Int2V(25)) /\ Gt(MathAbs(slope), Num(5, 100)) THEN "STRONG_TREND"
    ELSE IF Gt(currentAdx, Int2V(20)) THEN "WEAK_TREND"
    ELSE IF Lt(currentAdx, Int2V(18)) THEN "STRONG_RANGE"
    ELSE "WEAK_RANGE"

\* regime.includes(word) for the regime labels of the trend-regime strategy
RegimeIncludes(regime, word) ==
    \/ word = "TREND" /\ regime \in {"STRONG_TREND", "WEAK_TREND"}
    \/ word = "RANGE" /\ regime \in {"STRONG_RANGE", "WEAK_RANGE"}

\* a variant of ema200Slope that divides by the previous EMA200 whatever it is
ema200SlopeUnguarded(currentEma200, prevEma200) ==
    Mul(Div(Sub(currentEma200, prevEma200), prevEma200), Int2V(100))

\* slope = prevEma200 ? ((currentEma200 - prevEma200) / prevEma200) * 100 : 0
ema200Slope(currentEma200, prevEma200) ==
    IF Truthy(prevEma200)
    THEN Mul(Div(Sub(currentEma200, prevEma200), prevEma200), Int2V(100))
    ELSE Int2V(0)

\* the latest 4h ADX, EMA200 values and the EMA200 slope
regimeInputs(klines4h) ==
    Bind(calculateEMA(Closes(klines4h), EMA_REGIME_PERIOD), LAMBDA ema200_4h:
    Bind(calculateADX(Highs(klines4h), Lows(klines4h), Closes(klines4h), ADX_PERIOD),
         LAMBDA adx_4h:
         [currentAdx |-> OrZero(At(adx_4h, Len(klines4h) - 1)),
          rawEma |-> At(ema200_4h, Len(klines4h) - 1),
          rawPrevEma |-> At(ema200_4h, Len(klines4h) - 2),
          slope |-> ema200Slope(OrZero(At(ema200_4h, Len(klines4h) - 1)),
                                OrZero(At(ema200_4h, Len(klines4h) - 2)))]))

\* the zone, stop and target of the TREND branch for the direction (1 or -1) and rr
trendLevels(direction, rr, entry_low, entry_high, atr) ==
    Bind(Sub(entry_low, Mul(Int2V(direction), Mul(atr, Num(5, 10)))), LAMBDA stop:
         [direction |-> direction, rr |-> rr, entry_low |-> entry_low,
          entry_high |-> entry_high, stop |-> stop,
          target |-> Add(entry_high,
                         Mul(Int2V(direction), Mul(MathAbs(Sub(entry_high, stop)), rr)))])

\* the TREND branch: entry zone, stop and target around the price
trendBranch(regime, price, ema20, atr) ==
    Bind(IF Gt(price, ema20) THEN 1 ELSE -1, LAMBDA direction:
         trendLevels(direction, IF regime = "STRONG_TREND" THEN Int2V(2) ELSE Num(13, 10),
                     Sub(price, Mul(Int2V(direction), Mul(atr, Num(8, 10)))),
                     Sub(price, Mul(Int2V(direction), Mul(atr, Num(3, 10)))), atr))

\* the short side of the RANGE branch
rangeShort(sell_low, sell_high, atr, rr) ==
    Bind(Add(sell_high, atr), LAMBDA stop:
         [direction |-> -1, rr |-> rr, entry_low |-> sell_low, entry_high |-> sell_high,
          stop |-> stop, target |-> Sub(sell_high, Mul(MathAbs(Sub(sell_high, stop)), rr))])

\* the long side of the RANGE branch
rangeLong(buy_low, buy_high, atr, rr) ==
    Bind(Sub(buy_low, atr), LAMBDA stop:
         [direction |-> 1, rr |-> rr, entry_low |-> buy_low, entry_high |-> buy_high,
          stop |-> stop, target |-> Add(buy_high, Mul(MathAbs(Sub(buy_high, stop)), rr))])

\* the side of the range the price is nearer to
rangeSide(price, sell_low, sell_high, buy_low, buy_high, atr) ==
    IF Lt(MathAbs(Sub(price, sell_low)), MathAbs(Sub(price, buy_high)))
    THEN rangeShort(sell_low, sell_high, atr, Num(15, 10))
    ELSE rangeLong(buy_low, buy_high, atr, Num(15, 10))

\* the RANGE branch: the sell zone at the 20-bar high or the buy zone at the 20-bar low
rangeBranch(symbol, price, atr, high20, low20) ==
    IF symbol = "BTCUSDT"
    THEN rangeSide(price, Sub(high20, Mul(atr, Num(5, 10))), Add(high20, Mul(atr, Num(5, 10))),
                   Sub(low20, Mul(atr, Num(5, 10))), Add(low20, Mul(atr, Num(5, 10))), atr)
    ELSE rangeSide(price, Sub(high20, atr), Add(high20, Mul(atr, Num(8, 10))),
                   Sub(low20, atr), Add(low20, Mul(atr, Num(8, 10))), atr)

\* a variant of tooFewBars that gives up only when both series are too short
tooFewBarsBoth(klines4h, klines15m) ==
    Len(klines4h) < MIN_BARS_4H /\ Len(klines15m) < MIN_BARS_15M

\* the hard precondition on the history of both timeframes
tooFewBars(klines4h, klines15m) ==
    Len(klines4h) < MIN_BARS_4H \/ Len(klines15m) < MIN_BARS_15M

\* the local constants of runTrendRegimeStrategy before any of them is computed
NoLocals ==
    [currentAdx |-> Null, ema200 |-> Null, ema200Prev |-> Null, slope |-> Null,
     regime |-> "", price |-> Null, ema20 |-> Null, atr |-> Null, high20 |-> Null,
     low20 |-> Null]

\* the local constants of runTrendRegimeStrategy once both series are long enough
trendLocals(klines4h, klines15m) ==
    Bind(regimeInputs(klines4h), LAMBDA ri:
         [currentAdx |-> ri.currentAdx, ema200 |-> ri.rawEma, ema200Prev |-> ri.rawPrevEma,
          slope |-> ri.slope,
          regime |-> classifyRegime(ri.currentAdx, ri.slope),
          price |-> At(Closes(klines15m), Len(klines15m) - 1),
          ema20 |-> At(calculateEMA(Closes(klines15m), EMA_ENTRY_PERIOD), Len(klines15m) - 1),
          atr |-> OrZero(At(calculateATR(Highs(klines15m), Lows(klines15m),
                                         Closes(klines15m), ATR_PERIOD),
                            Len(klines15m) - 1)),
          high20 |-> MathMax(SliceLast(Highs(klines15m), ROLLING_WINDOW)),
          low20 |-> MathMin(SliceLast(Lows(klines15m), ROLLING_WINDOW))])

\* the result built from the levels b of the branch taken
trendSignal(symbol, loc, b) ==
    Signal(symbol, loc.regime, loc.price, IF b.direction = 1 THEN "LONG" ELSE "SHORT",
           Min2(b.entry_low, b.entry_high), Max2(b.entry_low, b.entry_high),
           b.stop, b.target, b.rr,
           <<"Analyzing", "4H Regime", "4H ADX", "4H EMA200 Slope", "15m Price", "15m ATR",
             "15m EMA20", "Decision">>)

\* the branch taken on the regime and the result built from it
trendDecision(symbol, loc) ==
    IF ~RegimeIncludes(loc.regime, "TREND") /\ ~RegimeIncludes(loc.regime, "RANGE")
    THEN NullResult
    ELSE IF loc.ema20.k \in {"null", "undef"}
    THEN Thrown("TypeError")   \* ema20_15m[latest15mIdx].toFixed(2) on null
    ELSE IF RegimeIncludes(loc.regime, "TREND")
    THEN trendSignal(symbol, loc, trendBranch(loc.regime, loc.price, loc.ema20, loc.atr))
    ELSE trendSignal(symbol, loc,
                     rangeBranch(symbol, loc.price, loc.atr, loc.high20, loc.low20))

\* runTrendRegimeStrategy after its two fetches: the value returned (or thrown) and the
\* local constants it computed on the way
runTrendRegimeStrategy(symbol, klines4h, klines15m) ==
    IF tooFewBars(klines4h, klines15m)
    THEN [result |-> NullResult, locals |-> NoLocals]
    ELSE Bind(trendLocals(klines4h, klines15m), LAMBDA loc:
              [result |-> trendDecision(symbol, loc), locals |-> loc])

(***************************************************************************)
(* Structural-reversal strategy                                            *)
(***************************************************************************)
\* the code from the 4h fetch to the test of the 4h trend
structAfter4h(klines4h) ==
    Bind(getSwingPoints(klines4h, SWING_N), LAMBDA sw:
    Bind(detectTrend(klines4h, sw.highs, sw.lows), LAMBDA t:
         [trend |-> t.trend, direction |-> t.direction, highs |-> t.highs, lows |-> t.lows,
          swingHighs |-> sw.highs, swingLows |-> sw.lows,
          logs |-> <<"Analyzing", "4H Trend", "Last 3 Swing Highs (4H)",
                     "Last 3 Swing Lows (4H)", "Current 4H RSI">>
                   \o (IF t.trend = "RANGE"
                       THEN <<"4H Structure Not Clean", "1H scan">> ELSE <<>>)]))

\* the trend of the 1h series
structAfter1h(klines1h) ==
    Bind(getSwingPoints(klines1h, SWING_N), LAMBDA sw:
    Bind(detectTrend(klines1h, sw.highs, sw.lows), LAMBDA t:
         [trend |-> t.trend, direction |-> t.direction,
          swingHighs |-> sw.highs, swingLows |-> sw.lows]))

\* a variant of sweepRegime that tests the low boundary first
sweepRegimeLowFirst(isNearHigh, isNearLow) ==
    IF isNearLow THEN "LIQUIDITY_SWEEP_LOW"
    ELSE IF isNearHigh THEN "LIQUIDITY_SWEEP_HIGH"
    ELSE "RANGE_WAITING"

\* which boundary of the range the price is taken to be at: the high is tested first
sweepRegime(isNearHigh, isNearLow) ==
    IF isNearHigh THEN "LIQUIDITY_SWEEP_HIGH"
    ELSE IF isNearLow THEN "LIQUIDITY_SWEEP_LOW"
    ELSE "RANGE_WAITING"

\* the boundaries of the range: the last swing high and low of the 4h series, or its
\* highest high and lowest low when it has no swing point
rangeBounds(klines4h) ==
    Bind(structAfter4h(klines4h), LAMBDA a:
         [rangeHigh |-> IF Len(a.highs) > 0 THEN a.highs[Len(a.highs)]
                        ELSE MathMax(Highs(klines4h)),
          rangeLow |-> IF Len(a.lows) > 0 THEN a.lows[Len(a.lows)]
                       ELSE MathMin(Lows(klines4h)),
          logs |-> a.logs])

\* the result of the liquidity mode for the regime found
sweepSignal(symbol, regime, price, rangeHigh, rangeLow, atr, logs) ==
    IF regime = "LIQUIDITY_SWEEP_HIGH"
    THEN Signal(symbol, regime, price, "SHORT",
                Sub(rangeHigh, Mul(atr, Num(5, 10))), Add(rangeHigh, Mul(atr, Num(5, 10))),
                Add(rangeHigh, atr), rangeLow, Div(Sub(rangeHigh, rangeLow), atr), logs)
    ELSE IF regime = "LIQUIDITY_SWEEP_LOW"
    THEN Signal(symbol, regime, price, "LONG",
                Sub(rangeLow, Mul(atr, Num(5, 10))), Add(rangeLow, Mul(atr, Num(5, 10))),
                Sub(rangeLow, atr), rangeHigh, Div(Sub(rangeHigh, rangeLow), atr), logs)
    ELSE Signal(symbol, regime, price, "LONG",
                Int2V(0), Int2V(0), Int2V(0), Int2V(0), Int2V(0), logs)

\* the liquidity mode: both the 4h and the 1h trend are RANGE
sweepResult(symbol, klines4h) ==
    IF Len(klines4h) = 0
    THEN Thrown("TypeError")   \* klines4h[klines4h.length - 1] is undefined
    ELSE Bind(rangeBounds(klines4h), LAMBDA rb:
         Bind(klines4h[Len(klines4h)].close, LAMBDA price:
         Bind(OrZero(Pop(calculateATR(Highs(klines4h), Lows(klines4h), Closes(klines4h),
                                      ATR_PERIOD))),
              LAMBDA atr:
              sweepSignal(symbol,
                          sweepRegime(Lt(MathAbs(Sub(price, rb.rangeHigh)), atr),
                                      Lt(MathAbs(Sub(price, rb.rangeLow)), atr)),
                          price, rb.rangeHigh, rb.rangeLow, atr,
                          rb.logs \o <<"1H still RANGE", "Liquidity High", "Liquidity Low",
                                       "Conclusion">>))))

\* the trend adopted once the 1h fetch (if any) is done: the 4h trend, or the 1h trend
\* when the 4h trend is RANGE
activeTrend(klines4h, klines1h) ==
    Bind(structAfter4h(klines4h), LAMBDA a:
         IF a.trend = "RANGE"
         THEN Bind(structAfter1h(klines1h), LAMBDA b:
                   [trend |-> b.trend, direction |-> b.direction, klines |-> klines1h,
                    swingHighs |-> b.swingHighs, swingLows |-> b.swingLows,
                    logs |-> a.logs \o <<"Found 1H trend">>])
         ELSE [trend |-> a.trend, direction |-> a.direction, klines |-> klines4h,
               swingHighs |-> a.swingHighs, swingLows |-> a.swingLows, logs |-> a.logs])

\* the impulse leg of the active timeframe
activeImpulse(klines4h, klines1h) ==
    Bind(activeTrend(klines4h, klines1h), LAMBDA t:
         findImpulse(t.klines, t.swingHighs, t.swingLows, t.direction))

\* the result returned when no impulse leg is found
noImpulseResult(symbol, klines4h, klines1h) ==
    Bind(activeTrend(klines4h, klines1h), LAMBDA t:
         IF Len(t.klines) = 0 THEN Thrown("TypeError")
         ELSE Signal(symbol, "NO_IMPULSE", t.klines[Len(t.klines)].close, "LONG",
                     Int2V(0), Int2V(0), Int2V(0), Int2V(0), Int2V(0),
                     t.logs \o <<"Could not find impulse leg">>))

\* price >= Math.min(prz_low, prz_high) && price <= Math.max(prz_low, prz_high)
inPRZ(price, prz_low, prz_high) ==
    Ge(price, Min2(prz_low, prz_high)) /\ Le(price, Max2(prz_low, prz_high))

\* a variant of przDecision that takes an engulfing bar as the only confirmation
przDecisionEngulfingOnly(symbol, trend, direction, impulse, prz, price, isInPRZ, div, eng, logs) ==
    IF direction = "UP" /\ isInPRZ /\ eng.bullish
    THEN Signal(symbol, "PRZ_REVERSAL_" \o trend, price, "LONG", prz.prz_low, prz.prz_high,
                impulse.low, impulse.high,
                Div(Sub(impulse.high, price), Sub(price, impulse.low)),
                logs \o <<"LONG PRZ ACTIVE">>)
    ELSE IF direction = "DOWN" /\ isInPRZ /\ eng.bearish
    THEN Signal(symbol, "PRZ_REVERSAL_" \o trend, price, "SHORT", prz.prz_low, prz.prz_high,
                impulse.high, impulse.low,
                Div(Sub(price, impulse.low), Sub(impulse.high, price)),
                logs \o <<"SHORT PRZ ACTIVE">>)
    ELSE Signal(symbol, IF isInPRZ THEN "PRZ_WAITING_SIGNAL" ELSE "WAITING_FOR_PRZ",
                price, IF direction = "UP" THEN "LONG" ELSE "SHORT", prz.prz_low, prz.prz_high,
                IF direction = "UP" THEN impulse.low ELSE impulse.high,
                IF direction = "UP" THEN impulse.high ELSE impulse.low,
                Int2V(0),
                logs \o (IF direction = "UP" /\ isInPRZ THEN <<"LONG PRZ ACTIVE">>
                         ELSE IF direction = "DOWN" /\ isInPRZ THEN <<"SHORT PRZ ACTIVE">>
                         ELSE <<"Waiting for PRZ touch">>))

\* the decision after the 15m fetch: price against the PRZ, divergence and engulfing
przDecision(symbol, trend, direction, impulse, prz, price, isInPRZ, div, eng, logs) ==
    IF direction = "UP" /\ isInPRZ /\ (div = "BULLISH_DIV" \/ eng.bullish)
    THEN Signal(symbol, "PRZ_REVERSAL_" \o trend, price, "LONG", prz.prz_low, prz.prz_high,
                impulse.low, impulse.high,
                Div(Sub(impulse.high, price), Sub(price, impulse.low)),
                logs \o <<"LONG PRZ ACTIVE">>)
    ELSE IF direction = "DOWN" /\ isInPRZ /\ (div = "BEARISH_DIV" \/ eng.bearish)
    THEN Signal(symbol, "PRZ_REVERSAL_" \o trend, price, "SHORT", prz.prz_low, prz.prz_high,
                impulse.high, impulse.low,
                Div(Sub(price, impulse.low), Sub(impulse.high, price)),
                logs \o <<"SHORT PRZ ACTIVE">>)
    ELSE Signal(symbol, IF isInPRZ THEN "PRZ_WAITING_SIGNAL" ELSE "WAITING_FOR_PRZ",
                price, IF direction = "UP" THEN "LONG" ELSE "SHORT", prz.prz_low, prz.prz_high,
                IF direction = "UP" THEN impulse.low ELSE impulse.high,
                IF direction = "UP" THEN impulse.high ELSE impulse.low,
                Int2V(0),
                logs \o (IF direction = "UP" /\ isInPRZ THEN <<"LONG PRZ ACTIVE">>
                         ELSE IF direction = "DOWN" /\ isInPRZ THEN <<"SHORT PRZ ACTIVE">>
                         ELSE <<"Waiting for PRZ touch">>))

\* the code after the 15m fetch
przResult(symbol, klines4h, klines1h, klines15m) ==
    IF Len(klines15m) < 2
    THEN Thrown("TypeError")   \* klines15m[length - 1] or prev is undefined
    ELSE Bind(activeTrend(klines4h, klines1h), LAMBDA t:
         Bind(findImpulse(t.klines, t.swingHighs, t.swingLows, t.direction), LAMBDA impulse:
         Bind(calculatePRZ(impulse.low, impulse.high, t.direction), LAMBDA prz:
         Bind(klines15m[Len(klines15m)].close, LAMBDA price:
              przDecision(symbol, t.trend, t.direction, impulse, prz, price,
                          inPRZ(price, prz.prz_low, prz.prz_high),
                          detectDivergence(klines15m), detectEngulfing(klines15m),
                          t.logs \o <<"Impulse Leg Low", "Impulse Leg High", "PRZ Zone",
                                      "15m Current Price", "15m RSI", "15m Divergence",
                                      "Bullish Engulfing", "Bearish Engulfing",
                                      "15m Recent High", "15m Recent Low", "BOS Up",
                                      "BOS Down">>)))))

(***************************************************************************)
(* Bar series returned by the provider                                     *)
(***************************************************************************)
MaxTail == 3

IMax(a, b) == IF a > b THEN a ELSE b
IMin(a, b) == IF a < b THEN a ELSE b

\* close of bar i (0-based) of the series p: a line of slope p.step from p.base whose
\* last p.tail bars move by a further p.tailStep each
SeriesClose(p, i) == p.base + p.step * i + p.tailStep * IMax(0, i - (p.len - 1 - p.tail))

\* bar i opens at the previous close and has wicks of p.wick beyond its body
SeriesBar(p, i) ==
    LET c == SeriesClose(p, i)
        o == IF i = 0 THEN c ELSE SeriesClose(p, i - 1)
    IN  Bar(o, IMax(o, c) + p.wick, IMin(o, c) - p.wick, c)

MakeSeries(p) == AsTuple([j \in 1..p.len |-> SeriesBar(p, j - 1)])

Shape(len, base, step, wick, tail, tailStep) ==
    [len |-> len, base |-> base, step |-> step, wick |-> wick, tail |-> tail,
     tailStep |-> tailStep]

\* 4h series for the trend-regime strategy: one bar too few, exactly enough, one more;
\* flat, rising steeply or gently, falling gently, flat with a rising tail
Pool4hTrend ==
    {Shape(n, 100, s, 1, 0, 0) : n \in {MIN_BARS_4H - 1, MIN_BARS_4H, MIN_BARS_4H + 1},
                                 s \in {0, 1}}
    \cup {Shape(MIN_BARS_4H + 1, 3000, s, 1, 0, 0) : s \in {-1, 1}}
    \cup {Shape(MIN_BARS_4H + 1, 100, 0, 1, k, 5) : k \in 1..MaxTail}

\* 15m series for the trend-regime strategy
Pool15mTrend ==
    {Shape(n, 100, s, 1, 0, 0) : n \in {MIN_BARS_15M - 1, MIN_BARS_15M, MIN_BARS_15M + 1},
                                 s \in {0, 1}}
    \cup {Shape(MIN_BARS_15M, 200, -1, 1, 0, 0)}
    \cup {Shape(MIN_BARS_15M, 100, 0, 1, k, 3) : k \in 1..MaxTail}
    \cup {Shape(MIN_BARS_15M, 100, 0, 1, 1, -3)}

Symbols == {"BTCUSDT", "ETHUSDT"}

\* a bar that opens and closes at c with wicks of w on both sides
Doji(c, w) == Bar(c, c + w, c - w, c)

\* the series of such bars along the closes cs
DojiSeries(cs) == AsTuple([j \in 1..Len(cs) |-> Doji(cs[j], 1)])

\* four quiet bars at the level c, then a falling (dir = 1) or rising (dir = -1) bar and
\* a last bar that engulfs it and closes at c; dir = 0 leaves two more quiet bars
EngulfSeries(c, dir) ==
    DojiSeries(<<c, c, c, c>>)
    \o (IF dir = 0 THEN DojiSeries(<<c, c>>)
        ELSE <<Bar(c - dir, c + 3, c - 3, c - 2 * dir), Bar(c - 3 * dir, c + 4, c - 4, c)>>)

\* a swing high at 113, then a gap up to bars with long upper wicks whose highs keep
\* rising (no further swing high) and whose lows make a swing low at 123: a range whose
\* last swing low lies above its last swing high, closing near the swing low
GapRangeSeries ==
    DojiSeries(<<100, 102, 104, 112, 104, 102, 100>>)
        \o <<Bar(125, 140, 124, 125), Bar(128, 141, 127, 128), Bar(132, 142, 131, 132),
             Bar(124, 143, 123, 124), Bar(125, 144, 124, 125), Bar(126, 145, 125, 126),
             Bar(127, 146, 126, 127), Bar(128, 147, 127, 128)>>

\* 4h series for the structural-reversal strategy: no bar at all, too short for ATR(14),
\* ranges with the last close near the last swing high, near the last swing low, near
\* neither and near both, a rise without any swing point, an up-trend, a down-trend,
\* an up-trend and a range whose last swing low lies above its last swing high
Pool4hStruct ==
    {<<>>, GapRangeSeries,
     DojiSeries(<<100, 102, 104, 106, 104, 102, 100>>),
     DojiSeries(<<100, 102, 104, 106, 104, 102, 100, 98, 96, 98, 100, 102, 104, 102, 100,
                  102, 103, 103>>),
     DojiSeries(<<100, 102, 104, 106, 104, 102, 100, 98, 96, 98, 100, 102, 104, 102, 100,
                  98, 97, 97>>),
     DojiSeries(<<100, 102, 104, 106, 104, 102, 100, 98, 96, 98, 100, 102, 104, 102, 100,
                  110, 112, 114>>),
     DojiSeries(<<100, 100, 100, 100, 100, 100, 100, 100, 100, 100, 100, 100, 100, 100,
                  100, 100>>),
     DojiSeries(<<100, 101, 102, 103, 104, 105, 106, 107, 108, 109, 110, 111, 112, 113,
                  114, 115, 116, 117>>),
     DojiSeries(<<100, 102, 104, 106, 104, 102, 100, 102, 104, 106, 108, 110, 108, 106,
                  104, 106, 108, 109>>),
     DojiSeries(<<110, 108, 106, 104, 106, 108, 110, 108, 106, 104, 102, 100, 102, 104,
                  106, 104, 102, 101>>),
     DojiSeries(<<100, 102, 104, 106, 104, 102, 100, 103, 106, 109, 112, 109, 106, 103,
                  125, 128, 132, 124, 133, 134, 135>>)}

\* 1h series for the structural-reversal strategy
Pool1hStruct ==
    {<<>>,
     DojiSeries(<<100, 102, 104, 106, 104, 102, 100, 98, 96, 98, 100, 102, 104, 102, 100,
                  102, 103, 103>>),
     DojiSeries(<<100, 102, 104, 106, 104, 102, 100, 102, 104, 106, 108, 110, 108, 106,
                  104, 106, 108, 109>>),
     DojiSeries(<<110, 108, 106, 104, 106, 108, 110, 108, 106, 104, 102, 100, 102, 104,
                  106, 104, 102, 101>>),
     DojiSeries(<<100, 102, 104, 106, 104, 102, 100, 103, 106, 109, 112, 109, 106, 103,
                  125, 128, 132, 124, 133, 134, 135>>)}

\* a fall to a swing low, a recovery and a fall to a lower swing low near the end: the
\* later low has an RSI(14), the earlier one (before the warm-up) has none
LowerLowSeries ==
    DojiSeries(<<112, 110, 108, 107, 106, 107, 108, 109, 110, 109, 108, 107, 106, 105, 104,
                 105, 105, 105>>)

\* a steady rise to a swing high with RSI(14) = 100, a dip and a higher swing high with
\* a lower RSI(14)
HigherHighSeries ==
    DojiSeries(<<90, 91, 92, 93, 94, 95, 96, 97, 98, 99, 100, 101, 102, 103, 104, 103, 102,
                 103, 106, 105, 105, 105>>)

\* 15m series for the structural-reversal strategy: no bar, a single bar, short series
\* below, inside and between the reversal zones of the series above, and two longer
\* series that end inside the zones with a divergence and without an engulfing bar
Pool15mStruct ==
    {<<>>, DojiSeries(<<105>>), LowerLowSeries, HigherHighSeries}
    \cup {EngulfSeries(c, dir) : c \in {90, 105, 120}, dir \in {-1, 0, 1}}

Strategies == {"trend_regime", "structural_reversal"}

\* the series the provider may return for a request of the strategy for the interval
Pool(strategy, iv) ==
    IF strategy = "structural_reversal"
    THEN (IF iv = "4h" THEN Pool4hStruct ELSE IF iv = "1h" THEN Pool1hStruct
          ELSE Pool15mStruct)
    ELSE (IF iv = "4h" THEN {MakeSeries(p) : p \in Pool4hTrend}
          ELSE {MakeSeries(p) : p \in Pool15mTrend})

(***************************************************************************)
(* Bar retrieval: fetchKlinesWithFallback                                  *)
(***************************************************************************)
\* the number of Binance endpoints; endpoint index NUM_BINANCE is the KuCoin fallback
NUM_BINANCE == 6

Reverse(arr) == AsTuple([j \in 1..Len(arr) |-> arr[Len(arr) + 1 - j]])

\* the body of a Binance response for a series: rows [time, open, high, low, close]
BinanceJson(series) ==
    AsTuple([j \in 1..Len(series) |->
                <<j, series[j].open, series[j].high, series[j].low, series[j].close>>])

\* the data of a KuCoin response for a series: rows [time, open, close, high, low],
\* the newest first
KucoinJson(series) ==
    Reverse(AsTuple([j \in 1..Len(series) |->
                        <<j, series[j].open, series[j].close, series[j].high,
                          series[j].low>>]))

\* json.map(d => ({open: d[1], high: d[2], low: d[3], close: d[4]}))
parseBinance(json) ==
    AsTuple([j \in 1..Len(json) |->
                [open |-> json[j][2], high |-> json[j][3], low |-> json[j][4],
                 close |-> json[j][5]]])

\* json.data.map(d => ({open: d[1], close: d[2], high: d[3], low: d[4]})).reverse()
parseKucoin(data) ==
    Reverse(AsTuple([j \in 1..Len(data) |->
                        [open |-> data[j][2], close |-> data[j][3], high |-> data[j][4],
                         low |-> data[j][5]]]))

\* a variant of fetchError that always throws the generic error
fetchErrorGeneric(lastErr) == "All endpoints failed"

\* throw lastError || new Error('All endpoints failed')
fetchError(lastErr) == IF lastErr = "undefined" THEN "All endpoints failed" ELSE lastErr

(***************************************************************************)
(* runStrategy: the try/catch around the strategy                          *)
(***************************************************************************)
\* a variant of runStrategySettle without the catch block: a thrown error rejects the
\* promise
runStrategyRethrows(r) ==
    IF r.kind = "throw"
    THEN [outcome |-> "rejected", result |-> Pending, caught |-> "none"]
    ELSE [outcome |-> "resolved", result |-> r, caught |-> "none"]

\* how the promise of runStrategy settles on the value r returned or thrown by the
\* strategy: a thrown error is caught, logged and turned into null
runStrategySettle(r) ==
    IF r.kind = "throw"
    THEN [outcome |-> "resolved", result |-> NullResult, caught |-> r.error]
    ELSE [outcome |-> "resolved", result |-> r, caught |-> "none"]

(***************************************************************************)
(* State                                                                   *)
(***************************************************************************)
VARIABLES
    pc,          \* "idle", "fetching" (a fetch is waiting for an endpoint), "fetched"
                 \* (the fetch has returned, the strategy is about to resume), "settled"
    symbol,      \* the arguments of the runStrategy call
    strategyId,
    interval,    \* the interval of the fetch in progress
    ep,          \* the endpoint the fetch is waiting for: 0..5 Binance, 6 KuCoin
    lastError,   \* lastError of fetchKlinesWithFallback
    fetched,     \* the series fetchKlinesWithFallback returned
    klines4h,    \* the series fetched so far
    klines1h,
    klines15m,
    locals,      \* local constants of runTrendRegimeStrategy
    outcome,     \* of the promise returned by runStrategy
    result,      \* the value it resolved to
    caught,      \* the error logged by the catch block of runStrategy
    call         \* a direct application of an indicator or of the regime classification

vars == <<pc, symbol, strategyId, interval, ep, lastError, fetched, klines4h, klines1h,
          klines15m, locals, outcome, result, caught, call>>

NoCall == [fn |-> "none"]

Init ==
    /\ pc = "idle"
    /\ symbol = ""
    /\ strategyId = ""
    /\ interval = ""
    /\ ep = 0
    /\ lastError = "undefined"
    /\ fetched = <<>>
    /\ klines4h = <<>>
    /\ klines1h = <<>>
    /\ klines15m = <<>>
    /\ locals = NoLocals
    /\ outcome = "none"
    /\ result = Pending
    /\ caught = "none"
    /\ call = NoCall

\* a variant of Await that requests the 4h series whatever the interval asked for
AwaitFourHours(iv) ==
    /\ pc' = "fetching"
    /\ interval' = "4h"
    /\ ep' = 0
    /\ lastError' = "undefined"
    /\ UNCHANGED <<outcome, result, caught>>

\* the strategy suspends in the fetch of the interval iv, at the first endpoint
Await(iv) ==
    /\ pc' = "fetching"
    /\ interval' = iv
    /\ ep' = 0
    /\ lastError' = "undefined"
    /\ UNCHANGED <<outcome, result, caught>>

\* the strategy returned or threw r: the promise of runStrategy settles
Finish(r) ==
    LET s == runStrategySettle(r)
    IN  /\ pc' = "settled"
        /\ ep' = 0
        /\ lastError' = "undefined"
        /\ outcome' = s.outcome
        /\ result' = s.result
        /\ caught' = s.caught
        /\ UNCHANGED interval

\* runStrategy(sym, sid): the strategy starts and suspends in its first fetch
Start(sym, sid) ==
    /\ pc \in {"idle", "settled"}
    /\ pc' = "fetching"
    /\ symbol' = sym
    /\ strategyId' = sid
    /\ interval' = "4h"
    /\ ep' = 0
    /\ lastError' = "undefined"
    /\ fetched' = <<>>
    /\ klines4h' = <<>>
    /\ klines1h' = <<>>
    /\ klines15m' = <<>>
    /\ locals' = NoLocals
    /\ outcome' = "pending"
    /\ result' = Pending
    /\ caught' = "none"

\* a call of runStrategy by a caller that keeps no state
Invoke(sym, sid) ==
    /\ Start(sym, sid)
    /\ UNCHANGED call

\* runTrendRegimeStrategy resumes with the series of the fetch it was suspended in
TrendResume(bars) ==
    IF interval = "4h"
    THEN /\ klines4h' = bars
         /\ Await("15m")
         /\ UNCHANGED <<klines1h, klines15m, locals>>
    ELSE LET run == runTrendRegimeStrategy(symbol, klines4h, bars)
         IN  /\ klines15m' = bars
             /\ locals' = run.locals
             /\ Finish(run.result)
             /\ UNCHANGED <<klines4h, klines1h>>

\* runStructuralReversalStrategy once the trend is set: with an impulse leg it goes on
\* to the 15m fetch, without one it returns NO_IMPULSE
StructImpulse(k4h, k1h) ==
    IF activeImpulse(k4h, k1h).isNull
    THEN Finish(noImpulseResult(symbol, k4h, k1h))
    ELSE Await("15m")

\* runStructuralReversalStrategy resumes with the series of the fetch it was suspended in
StructResume(bars) ==
    IF interval = "4h"
    THEN /\ klines4h' = bars
         /\ IF structAfter4h(bars).trend = "RANGE" THEN Await("1h")
            ELSE StructImpulse(bars, klines1h)
         /\ UNCHANGED <<klines1h, klines15m, locals>>
    ELSE IF interval = "1h"
    THEN /\ klines1h' = bars
         /\ IF structAfter1h(bars).trend = "RANGE"
            THEN Finish(sweepResult(symbol, klines4h))
            ELSE StructImpulse(klines4h, bars)
         /\ UNCHANGED <<klines4h, klines15m, locals>>
    ELSE /\ klines15m' = bars
         /\ Finish(przResult(symbol, klines4h, klines1h, bars))
         /\ UNCHANGED <<klines4h, klines1h, locals>>

\* fetchKlinesWithFallback returns the series
Return(series) ==
    /\ pc' = "fetched"
    /\ fetched' = series
    /\ ep' = 0
    /\ lastError' = "undefined"
    /\ UNCHANGED <<symbol, strategyId, interval, klines4h, klines1h, klines15m, locals,
                   outcome, result, caught, call>>

\* the Binance endpoint ep answers ok with the series
BinanceOk(series) ==
    /\ pc = "fetching"
    /\ ep < NUM_BINANCE
    /\ Return(parseBinance(BinanceJson(series)))

\* the Binance endpoint ep answers with a status that is not ok: the next endpoint is
\* tried and lastError is left as it is
BinanceNotOk ==
    /\ pc = "fetching"
    /\ ep < NUM_BINANCE
    /\ ep' = ep + 1
    /\ UNCHANGED <<pc, symbol, strategyId, interval, lastError, fetched, klines4h, klines1h,
                   klines15m, locals, outcome, result, caught, call>>

\* the request to the Binance endpoint ep (or the reading of its body) throws
BinanceThrows ==
    /\ pc = "fetching"
    /\ ep < NUM_BINANCE
    /\ ep' = ep + 1
    /\ lastError' = "binance" \o ToString(ep)
    /\ UNCHANGED <<pc, symbol, strategyId, interval, fetched, klines4h, klines1h, klines15m,
                   locals, outcome, result, caught, call>>

\* the KuCoin fallback answers with the series
KucoinOk(series) ==
    /\ pc = "fetching"
    /\ ep = NUM_BINANCE
    /\ Return(parseKucoin(KucoinJson(series)))

\* the KuCoin fallback fails: fetchKlinesWithFallback throws, the strategy rejects and
\* runStrategy catches the error
KucoinFails ==
    /\ pc = "fetching"
    /\ ep = NUM_BINANCE
    /\ Finish(Thrown(fetchError(lastError)))
    /\ UNCHANGED <<symbol, strategyId, fetched, klines4h, klines1h, klines15m, locals, call>>

\* the strategy named by strategyId resumes after the await of a fetch and runs to its
\* next fetch or to its end
StrategyResumes ==
    /\ pc = "fetched"
    /\ IF strategyId = "structural_reversal" THEN StructResume(fetched)
       ELSE TrendResume(fetched)
    /\ fetched' = <<>>
    /\ UNCHANGED <<symbol, strategyId, call>>

Next ==
    \/ \E sym \in Symbols, sid \in Strategies : Invoke(sym, sid)
    \/ \E series \in Pool(strategyId, interval) : BinanceOk(series)
    \/ BinanceNotOk
    \/ BinanceThrows
    \/ \E series \in Pool(strategyId, interval) : KucoinOk(series)
    \/ KucoinFails
    \/ StrategyResumes

Spec == Init /\ [][Next]_vars

(***************************************************************************)
(* Two invocations of runStrategy in flight at once                        *)
(***************************************************************************)
\* the invocation that is running, as a record: its arguments, its position, the state
\* of its fetch and its local constants
Frame ==
    [fn |-> "runStrategy", pc |-> pc, symbol |-> symbol, strategyId |-> strategyId,
     interval |-> interval, ep |-> ep, lastError |-> lastError, fetched |-> fetched,
     klines4h |-> klines4h, klines1h |-> klines1h, klines15m |-> klines15m,
     locals |-> locals, outcome |-> outcome, result |-> result, caught |-> caught]

\* an invocation that has not been made yet
IdleFrame ==
    [fn |-> "runStrategy", pc |-> "idle", symbol |-> "", strategyId |-> "", interval |-> "",
     ep |-> 0, lastError |-> "undefined", fetched |-> <<>>, klines4h |-> <<>>,
     klines1h |-> <<>>, klines15m |-> <<>>, locals |-> NoLocals, outcome |-> "none",
     result |-> Pending, caught |-> "none"]

\* the invocation that is not running: the one in call, or one still to be made
Suspended == IF call = NoCall THEN IdleFrame ELSE call

\* a variant of Resume in which the 4h series is a buffer shared by the invocations
ResumeSharedBuffer(f) ==
    /\ pc' = f.pc
    /\ symbol' = f.symbol
    /\ strategyId' = f.strategyId
    /\ interval' = f.interval
    /\ ep' = f.ep
    /\ lastError' = f.lastError
    /\ fetched' = f.fetched
    /\ klines4h' = klines4h
    /\ klines1h' = f.klines1h
    /\ klines15m' = f.klines15m
    /\ locals' = f.locals
    /\ outcome' = f.outcome
    /\ result' = f.result
    /\ caught' = f.caught

\* the invocation f goes on where it was suspended, with its own arguments and locals
Resume(f) ==
    /\ pc' = f.pc
    /\ symbol' = f.symbol
    /\ strategyId' = f.strategyId
    /\ interval' = f.interval
    /\ ep' = f.ep
    /\ lastError' = f.lastError
    /\ fetched' = f.fetched
    /\ klines4h' = f.klines4h
    /\ klines1h' = f.klines1h
    /\ klines15m' = f.klines15m
    /\ locals' = f.locals
    /\ outcome' = f.outcome
    /\ result' = f.result
    /\ caught' = f.caught

\* at an await the running invocation is suspended and the event loop runs the other
Switch ==
    /\ call' = Frame
    /\ Resume(Suspended)

\* series for two invocations at a time: a 4h range and a 4h up-trend, a 1h down-trend,
\* 15m series with and without a confirmation; flat series for the trend-regime strategy
ConcurrentPool(strategy, iv) ==
    IF strategy = "structural_reversal"
    THEN (IF iv = "4h"
          THEN {DojiSeries(<<100, 102, 104, 106, 104, 102, 100, 98, 96, 98, 100, 102, 104,
                             102, 100, 102, 103, 103>>),
                DojiSeries(<<100, 102, 104, 106, 104, 102, 100, 102, 104, 106, 108, 110, 108,
                             106, 104, 106, 108, 109>>)}
          ELSE IF iv = "1h"
          THEN {DojiSeries(<<110, 108, 106, 104, 106, 108, 110, 108, 106, 104, 102, 100, 102,
                             104, 106, 104, 102, 101>>)}
          ELSE {LowerLowSeries, EngulfSeries(105, 0)})
    ELSE (IF iv = "4h" THEN {MakeSeries(Shape(MIN_BARS_4H, 100, 0, 1, 0, 0))}
          ELSE {MakeSeries(Shape(MIN_BARS_15M, 100, 0, 1, 0, 0)),
                MakeSeries(Shape(MIN_BARS_15M, 100, 0, 1, 1, 3))})

\* either invocation takes its next step, its first endpoint failing at most once, or
\* the event loop turns to the other one
NextConcurrent ==
    \/ \E sym \in Symbols, sid \in Strategies : Invoke(sym, sid)
    \/ \E series \in ConcurrentPool(strategyId, interval) : BinanceOk(series)
    \/ ep = 0 /\ BinanceThrows
    \/ StrategyResumes
    \/ Switch

SpecConcurrent == Init /\ [][NextConcurrent]_vars

(***************************************************************************)
(* Direct applications of the indicator library                            *)
(***************************************************************************)
MaxLen == 4
MaxClose == 3
MaxPeriod == 2

\* every series of at most MaxLen bars closing at a price in 1..MaxClose
IndicatorInputs ==
    {DojiSeries(AsTuple(cs)) : cs \in UNION {[1..n -> 1..MaxClose] : n \in 0..MaxLen}}

\* the variables an application of a library function leaves alone
strategyVars ==
    <<pc, symbol, strategyId, interval, ep, lastError, fetched, klines4h, klines1h,
      klines15m, locals, outcome, result, caught>>

\* the record of an application: the indicator fn was applied to the bars data with the
\* period and returned the series out (MACD returns three series, the others one)
Application(fn, data, period, out) ==
    [fn |-> fn, data |-> data, period |-> period, out |-> out]

\* the three series of the object calculateMACD returns
macdSeries(m) == <<m.macdLine, m.signalLine, m.histogram>>

\* each action applies one function of the library, once, to fresh inputs
ApplySMA(data, period) ==
    /\ call = NoCall
    /\ call' = Application("calculateSMA", data, period,
                           <<calculateSMA(Closes(data), period)>>)
    /\ UNCHANGED strategyVars

ApplyEMA(data, period) ==
    /\ call = NoCall
    /\ call' = Application("calculateEMA", data, period,
                           <<calculateEMA(Closes(data), period)>>)
    /\ UNCHANGED strategyVars

ApplyRSI(data, period) ==
    /\ call = NoCall
    /\ call' = Application("calculateRSI", data, period,
                           <<calculateRSI(Closes(data), period)>>)
    /\ UNCHANGED strategyVars

ApplyATR(data, period) ==
    /\ call = NoCall
    /\ call' = Application("calculateATR", data, period,
                           <<calculateATR(Highs(data), Lows(data), Closes(data), period)>>)
    /\ UNCHANGED strategyVars

\* the ADX series, and with it the series dx it was averaged from
ApplyADX(data, period) ==
    /\ call = NoCall
    /\ call' = [fn |-> "calculateADX", data |-> data, period |-> period,
                out |-> <<calculateADX(Highs(data), Lows(data), Closes(data), period)>>,
                dx |-> calculateDX(Highs(data), Lows(data), Closes(data), period)]
    /\ UNCHANGED strategyVars

\* MACD with a fast, a slow and a signal period
ApplyMACD(data, fastPeriod, slowPeriod, signalPeriod) ==
    /\ call = NoCall
    /\ call' = [fn |-> "calculateMACD", data |-> data, period |-> fastPeriod,
                slowPeriod |-> slowPeriod, signalPeriod |-> signalPeriod,
                out |-> macdSeries(calculateMACD(Closes(data), fastPeriod, slowPeriod,
                                                 signalPeriod))]
    /\ UNCHANGED strategyVars

MaxStdDev == 2

\* the three series of the object calculateBollingerBands returns
bollingerSeries(b) == <<b.upper, b.lower, b.middle>>

\* Bollinger bands with the multiplier stdDev
ApplyBollinger(data, period, stdDev) ==
    /\ call = NoCall
    /\ call' = [fn |-> "calculateBollingerBands", data |-> data, period |-> period,
                stdDev |-> stdDev,
                out |-> bollingerSeries(calculateBollingerBands(Closes(data), period,
                                                                Int2V(stdDev)))]
    /\ UNCHANGED strategyVars

\* a bar quoted with its high below its low
Inverted(c) == Bar(c, c - 1, c + 1, c)

\* a bar without any range
ZeroRange(c) == Bar(c, c, c, c)

\* the series of IndicatorInputs and the same series with bars without range
AdxInputs ==
    IndicatorInputs
    \cup {AsTuple([j \in 1..Len(data) |-> ZeroRange(data[j].close.n)]) : data \in IndicatorInputs}

\* the series of IndicatorInputs and the same series with every bar inverted
AtrInputs ==
    IndicatorInputs
    \cup {AsTuple([j \in 1..Len(data) |-> Inverted(data[j].close.n)]) : data \in IndicatorInputs}

NextIndicators ==
    \/ \E data \in IndicatorInputs, period \in 1..MaxPeriod : ApplySMA(data, period)
    \/ \E data \in IndicatorInputs, period \in 1..MaxPeriod : ApplyEMA(data, period)
    \/ \E data \in IndicatorInputs, period \in 1..MaxPeriod : ApplyRSI(data, period)
    \/ \E data \in AtrInputs, period \in 1..MaxPeriod : ApplyATR(data, period)
    \/ \E data \in IndicatorInputs, period \in 1..MaxPeriod, stdDev \in 0..MaxStdDev :
           ApplyBollinger(data, period, stdDev)
    \/ \E data \in AdxInputs, period \in 1..MaxPeriod : ApplyADX(data, period)
    \/ \E data \in IndicatorInputs, fastPeriod, slowPeriod, signalPeriod \in 1..MaxPeriod :
           ApplyMACD(data, fastPeriod, slowPeriod, signalPeriod)

SpecIndicators == Init /\ [][NextIndicators]_vars

(***************************************************************************)
(* Direct applications of the regime classification                        *)
(***************************************************************************)
MaxAdx2 == 62
MaxSlope == 7

\* slopes in hundredths of a percent point: the values around the 0.05 threshold and
\* a slope of one percent either way
Slopes == (-MaxSlope..MaxSlope) \cup {-100, 100}

\* the classification of the ADX a2 / 2 and the slope h / 100
ApplyClassify(a2, h) ==
    /\ call = NoCall
    /\ call' = [fn |-> "classifyRegime", adx2 |-> a2, slope100 |-> h,
                regime |-> classifyRegime(Num(a2, 2), Num(h, 100))]
    /\ UNCHANGED strategyVars

NextRegime == \E a2 \in 0..MaxAdx2, h \in Slopes : ApplyClassify(a2, h)

SpecRegime == Init /\ [][NextRegime]_vars

(***************************************************************************)
(* Direct applications of the swing and candle pattern functions           *)
(***************************************************************************)
MaxBars == 5
MaxSwing == 2

\* bars with a low of 0 or 1 and a high of 1 or 2
SwingBars == {Bar(l, h, l, h) : l \in {0, 1}, h \in {1, 2}}

\* every series of at most MaxBars such bars
SwingInputs == {AsTuple(bs) : bs \in UNION {[1..len -> SwingBars] : len \in 0..MaxBars}}

ApplySwing(klines, n) ==
    /\ call = NoCall
    /\ call' = [fn |-> "getSwingPoints", klines |-> klines, n |-> n,
                out |-> getSwingPoints(klines, n)]
    /\ UNCHANGED strategyVars

\* detectTrend on the swing points of the series, as the strategies call it
ApplyTrend(klines, n) ==
    /\ call = NoCall
    /\ call' = [fn |-> "detectTrend", klines |-> klines, n |-> n,
                swings |-> getSwingPoints(klines, n),
                out |-> detectTrend(klines, getSwingPoints(klines, n).highs,
                                    getSwingPoints(klines, n).lows)]
    /\ UNCHANGED strategyVars

\* closes that fall bar by bar ("falling") or jump up and stay ("risen") until a first
\* low of 100 at the index i1, rally to 104, make a second low of 100 + delta four bars
\* after the first and stay there for three bars
DivergenceCloses(lead, i1, delta) ==
    AsTuple([k \in 1..(i1 + 8) |->
                IF k - 1 < i1 THEN (IF lead = "falling" THEN 100 + i1 - (k - 1)
                                    ELSE IF k = 1 THEN 81 ELSE IF k = 2 THEN 91 ELSE 101)
                ELSE IF k - 1 = i1 THEN 100
                ELSE IF k - 1 = i1 + 2 THEN 104
                ELSE IF k - 1 < i1 + 4 THEN 102
                ELSE 100 + delta])

\* the bars along such closes, or along their mirror image (two highs instead of two lows)
DivergenceSeries(lead, i1, delta, mirror) ==
    DojiSeries(AsTuple([k \in 1..(i1 + 8) |->
                           IF mirror THEN 200 - DivergenceCloses(lead, i1, delta)[k]
                           ELSE DivergenceCloses(lead, i1, delta)[k]]))

\* 15m series for detectDivergence: the first of the two swing points before or after
\* the first defined RSI(14), the second one beyond, level with or short of the first
DivergenceInputs ==
    {<<>>, DojiSeries(<<105>>), LowerLowSeries, HigherHighSeries}
    \cup {DivergenceSeries(lead, i1, delta, mirror) :
              lead \in {"falling", "risen"}, i1 \in {SWING_N + 1, RSI_PERIOD},
              delta \in {-1, 0, 1}, mirror \in BOOLEAN}

ApplyDivergence(klines) ==
    /\ call = NoCall
    /\ call' = [fn |-> "detectDivergence", klines |-> klines,
                out |-> detectDivergence(klines)]
    /\ UNCHANGED strategyVars

MaxPrice == 4

\* a bar that opens at o and closes at c, without wicks
Candle(o, c) == Bar(o, IF o > c THEN o ELSE c, IF o < c THEN o ELSE c, c)

\* the two bars of the documented example: 100 -> 95, then 94 -> 102
ExampleCandles == <<Candle(100, 95), Candle(94, 102)>>

\* every series of two or three bars that open and close at a price in 1..MaxPrice,
\* and the example
EngulfInputs ==
    {AsTuple(bs) : bs \in UNION {[1..len -> {Candle(o, c) : o, c \in 1..MaxPrice}] :
                                     len \in {2, 3}}}
    \cup {ExampleCandles}

ApplyEngulfing(klines) ==
    /\ call = NoCall
    /\ call' = [fn |-> "detectEngulfing", klines |-> klines, out |-> detectEngulfing(klines)]
    /\ UNCHANGED strategyVars

NextPatterns ==
    \/ \E klines \in SwingInputs, n \in 1..MaxSwing : ApplySwing(klines, n)
    \/ \E klines \in EngulfInputs : ApplyEngulfing(klines)
    \/ \E klines \in DivergenceInputs : ApplyDivergence(klines)
    \/ \E klines \in SwingInputs, n \in 1..MaxSwing : ApplyTrend(klines, n)

SpecPatterns == Init /\ [][NextPatterns]_vars

(***************************************************************************)
(* The useKlines hook                                                      *)
(***************************************************************************)
\* the effects one mounted hook may start
MaxEffects == 3

\* the arguments of the hook, the dependencies of its effect
HookKeys ==
    {[symbol |-> sym, interval |-> iv, limit |-> 150] : sym \in Symbols, iv \in {"15m", "1h"}}

\* useState<Kline[]>([]): bars fetched for no arguments at all
NoData == [symbol |-> "", interval |-> "", limit |-> 0]

\* the hook after its first render and the first run of its effect: the state holds the
\* bars by the arguments they were fetched for, and every fetchData in flight by the
\* arguments and the isMounted flag of its effect
useKlines(key) ==
    [fn |-> "useKlines", mounted |-> TRUE, key |-> key, data |-> NoData, loading |-> TRUE,
     error |-> "null", started |-> 1,
     inFlight |-> {[id |-> 1, key |-> key, isMounted |-> TRUE]}]

\* the cleanup of every effect run so far: isMounted = false
CleanedUp(inFlight) == {[r EXCEPT !.isMounted = FALSE] : r \in inFlight}

\* the component that uses the hook is mounted with the arguments key
HookMount(key) ==
    /\ call = NoCall
    /\ call' = useKlines(key)
    /\ UNCHANGED strategyVars

\* a render with other arguments: the previous effect is cleaned up and the effect runs
\* again, setLoading(true), setError(null), fetchData()
HookChange(key) ==
    /\ call.fn = "useKlines"
    /\ call.mounted
    /\ key # call.key
    /\ call.started < MaxEffects
    /\ call' = [call EXCEPT !.key = key, !.loading = TRUE, !.error = "null",
                            !.started = call.started + 1,
                            !.inFlight = CleanedUp(call.inFlight)
                                \cup {[id |-> call.started + 1, key |-> key,
                                       isMounted |-> TRUE]}]
    /\ UNCHANGED strategyVars

\* a variant of HookResolve without the isMounted tests
HookResolveUnguarded(r) ==
    /\ call.fn = "useKlines"
    /\ r \in call.inFlight
    /\ call' = [call EXCEPT !.data = r.key, !.loading = FALSE,
                            !.inFlight = call.inFlight \ {r}]
    /\ UNCHANGED strategyVars

\* the fetch of r returns bars: setData(klines) and setLoading(false) if isMounted
HookResolve(r) ==
    /\ call.fn = "useKlines"
    /\ r \in call.inFlight
    /\ call' = IF r.isMounted
               THEN [call EXCEPT !.data = r.key, !.loading = FALSE,
                                 !.inFlight = call.inFlight \ {r}]
               ELSE [call EXCEPT !.inFlight = call.inFlight \ {r}]
    /\ UNCHANGED strategyVars

\* the fetch of r and its fallback fail: setError(err.message) and setLoading(false) if
\* isMounted
HookReject(r) ==
    /\ call.fn = "useKlines"
    /\ r \in call.inFlight
    /\ call' = IF r.isMounted
               THEN [call EXCEPT !.error = "KuCoin failed", !.loading = FALSE,
                                 !.inFlight = call.inFlight \ {r}]
               ELSE [call EXCEPT !.inFlight = call.inFlight \ {r}]
    /\ UNCHANGED strategyVars

\* the component is unmounted: the cleanup of the last effect runs
HookUnmount ==
    /\ call.fn = "useKlines"
    /\ call.mounted
    /\ call' = [call EXCEPT !.mounted = FALSE, !.inFlight = CleanedUp(call.inFlight)]
    /\ UNCHANGED strategyVars

NextHook ==
    \/ \E key \in HookKeys : HookMount(key)
    \/ \E key \in HookKeys : HookChange(key)
    \/ \E r \in (IF call.fn = "useKlines" THEN call.inFlight ELSE {}) : HookResolve(r)
    \/ \E r \in (IF call.fn = "useKlines" THEN call.inFlight ELSE {}) : HookReject(r)
    \/ HookUnmount

SpecHook == Init /\ [][NextHook]_vars

(***************************************************************************)
(* The App component                                                       *)
(***************************************************************************)
\* the state of the component after its first render and the first run of its effect
App ==
    [fn |-> "App", symbol |-> "BTCUSDT", interval |-> "15m", strategyId |-> "trend_regime",
     strategyResult |-> NullResult, isStrategyRunning |-> FALSE]

AppMount ==
    /\ call = NoCall
    /\ call' = App
    /\ UNCHANGED strategyVars

\* setSymbol(sym) and the effect on [symbol, interval]: setStrategyResult(null)
setSymbol(sym) ==
    /\ call.fn = "App"
    /\ sym # call.symbol
    /\ call' = [call EXCEPT !.symbol = sym, !.strategyResult = NullResult]
    /\ UNCHANGED strategyVars

\* setInterval(iv) and the effect on [symbol, interval]: setStrategyResult(null)
setInterval(iv) ==
    /\ call.fn = "App"
    /\ iv # call.interval
    /\ call' = [call EXCEPT !.interval = iv, !.strategyResult = NullResult]
    /\ UNCHANGED strategyVars

setStrategyId(sid) ==
    /\ call.fn = "App"
    /\ sid # call.strategyId
    /\ call' = [call EXCEPT !.strategyId = sid]
    /\ UNCHANGED strategyVars

\* a click on the button, enabled while no run is in progress: handleRunStrategy runs
\* up to its await of runStrategy(symbol, strategyId)
handleRunStrategy ==
    /\ call.fn = "App"
    /\ ~call.isStrategyRunning
    /\ call' = [call EXCEPT !.isStrategyRunning = TRUE]
    /\ Start(call.symbol, call.strategyId)

\* handleRunStrategy resumes with the result of runStrategy: setStrategyResult(result)
\* and, in the finally block, setIsStrategyRunning(false)
handleRunStrategyResumes ==
    /\ call.fn = "App"
    /\ call.isStrategyRunning
    /\ pc = "settled"
    /\ call' = [call EXCEPT !.strategyResult = result, !.isStrategyRunning = FALSE]
    /\ UNCHANGED strategyVars

NextApp ==
    \/ AppMount
    \/ \E sym \in Symbols : setSymbol(sym)
    \/ \E iv \in {"15m", "1h"} : setInterval(iv)
    \/ \E sid \in Strategies : setStrategyId(sid)
    \/ handleRunStrategy
    \/ \E series \in ConcurrentPool(strategyId, interval) : BinanceOk(series)
    \/ StrategyResumes
    \/ handleRunStrategyResumes

SpecApp == Init /\ [][NextApp]_vars

(***************************************************************************)
(* Properties                                                              *)
(***************************************************************************)
\* the errors fetchKlinesWithFallback can throw
FetchErrors == {"All endpoints failed"} \cup {"binance" \o ToString(i) : i \in 0..(NUM_BINANCE - 1)}

\* the call has settled and every fetch it made returned a series
SettledAfterFetches(sid) ==
    pc = "settled" /\ strategyId = sid /\ caught \notin FetchErrors

\* C1: runStrategy never rejects. Once settled its promise is resolved, to a signal or
\* to null; and whenever an error was caught - a fetch that failed at any stage or a
\* later step that threw - it is resolved to null.
C1_NeverRejects ==
    /\ outcome # "rejected"
    /\ pc = "settled" => outcome = "resolved" /\ result.kind \in {"signal", "null"}
    /\ caught # "none" => pc = "settled" /\ outcome = "resolved" /\ result = NullResult

\* the third fetch of the structural-reversal strategy failed on every endpoint
C1_ThirdFetchFailed ==
    /\ pc = "settled"
    /\ strategyId = "structural_reversal"
    /\ interval = "15m"
    /\ caught = "All endpoints failed"
    /\ result = NullResult

\* C2: every signal returned by either strategy has entry_low <= entry_high.
C2_ZoneOrdered ==
    result.kind = "signal" => Le(result.entry_low, result.entry_high)

\* C3: every signal of the trend-regime strategy has its stop and its target on the
\* correct side of the entry zone: LONG has stop <= entry_low and target >= entry_high,
\* SHORT has stop >= entry_high and target <= entry_low.
C3_StopTargetSides ==
    strategyId = "trend_regime" /\ result.kind = "signal" =>
        /\ result.direction = "LONG" =>
               Le(result.stop, result.entry_low) /\ Ge(result.target, result.entry_high)
        /\ result.direction = "SHORT" =>
               Ge(result.stop, result.entry_high) /\ Le(result.target, result.entry_low)

\* C4: every series an indicator returns is as long as its input series.
C4_SameLength ==
    call.fn \in {"calculateSMA", "calculateEMA", "calculateRSI", "calculateATR",
                 "calculateADX", "calculateMACD"} =>
        \A k \in 1..Len(call.out) : Len(call.out[k]) = Len(call.data)

\* the number of values the indicator fn needs to seed itself with the period
SeedLength(fn, period) ==
    IF fn \in {"calculateSMA", "calculateEMA"} THEN period
    ELSE IF fn \in {"calculateRSI", "calculateATR"} THEN period + 1
    ELSE 2 * period

\* C5: with too little history to seed the indicator (fewer than period values for
\* SMA and EMA, fewer than period + 1 for RSI and ATR, fewer than 2 * period for ADX)
\* every entry of the returned series is null.
C5_AllNullWhenShort ==
    (/\ call.fn \in {"calculateSMA", "calculateEMA", "calculateRSI", "calculateATR",
                     "calculateADX"}
     /\ Len(call.data) < SeedLength(call.fn, call.period))
    => \A k \in 1..Len(call.out) : \A j \in 1..Len(call.out[k]) : call.out[k][j] = Null

\* the result carries no level to act on
Zeroed(r) ==
    /\ r.entry_low = Int2V(0)
    /\ r.entry_high = Int2V(0)
    /\ r.stop = Int2V(0)
    /\ r.target = Int2V(0)
    /\ r.rr = Int2V(0)

\* C6: when the 4h fetch of the structural-reversal strategy returns fewer than 500
\* bars, the strategy does not throw and returns null or a zeroed waiting result.
C6_ShortfallNoSignal ==
    SettledAfterFetches("structural_reversal") /\ Len(klines4h) < 500 =>
        /\ caught = "none"
        /\ result.kind = "null" \/ Zeroed(result)

\* C7: when both fetches succeed the trend-regime strategy returns null exactly when
\* the 4h series has fewer than 200 bars or the 15m series has fewer than 50; with
\* enough bars it returns a signal whose regime is one of the four labels.
C7_NullIffTooFewBars ==
    SettledAfterFetches("trend_regime") =>
        /\ result.kind \in {"null", "signal"}
        /\ result.kind = "null" <=> (Len(klines4h) < 200 \/ Len(klines15m) < 50)
        /\ result.kind = "signal" =>
               result.regime \in {"STRONG_TREND", "WEAK_TREND", "STRONG_RANGE", "WEAK_RANGE"}

\* the 4h series is just long enough, the 15m series one bar short: null
C7_OneBarShort ==
    /\ SettledAfterFetches("trend_regime")
    /\ caught = "none"
    /\ Len(klines4h) = 200
    /\ Len(klines15m) = 49
    /\ result.kind = "null"

\* C8: the regime is a total first-match function of (ADX, slope): STRONG_TREND iff
\* ADX > 25 and |slope| > 0.05, otherwise WEAK_TREND iff ADX > 20, otherwise
\* STRONG_RANGE iff ADX < 18, otherwise WEAK_RANGE; (30, 1.0), (22, 0), (10, _) and
\* (19, 0) give STRONG_TREND, WEAK_TREND, STRONG_RANGE and WEAK_RANGE. ADX is held in
\* halves and the slope in hundredths.
C8_RegimeClassification ==
    call.fn = "classifyRegime" =>
        /\ call.regime \in {"STRONG_TREND", "WEAK_TREND", "STRONG_RANGE", "WEAK_RANGE"}
        /\ call.regime = "STRONG_TREND" <=> (call.adx2 > 50 /\ Abs(call.slope100) > 5)
        /\ call.regime = "WEAK_TREND" <=>
               (~(call.adx2 > 50 /\ Abs(call.slope100) > 5) /\ call.adx2 > 40)
        /\ call.regime = "STRONG_RANGE" <=> call.adx2 < 36
        /\ call.regime = "WEAK_RANGE" <=> (call.adx2 >= 36 /\ call.adx2 <= 40)
        /\ call.adx2 = 60 /\ call.slope100 = 100 => call.regime = "STRONG_TREND"
        /\ call.adx2 = 44 /\ call.slope100 = 0 => call.regime = "WEAK_TREND"
        /\ call.adx2 = 20 => call.regime = "STRONG_RANGE"
        /\ call.adx2 = 38 /\ call.slope100 = 0 => call.regime = "WEAK_RANGE"

\* an ADX above 25 with a slope of exactly 0.05 was classified WEAK_TREND
C8_StrongAdxFlatSlope ==
    /\ call.fn = "classifyRegime"
    /\ call.adx2 = 51
    /\ call.slope100 = 5
    /\ call.regime = "WEAK_TREND"

\* the trend-regime strategy ran with enough bars; the 4h EMA200 is strictly rising at
\* the latest bar, the latest 4h ADX is above 25 and the latest 15m close is above the
\* 15m EMA20
C9_Scenario ==
    /\ SettledAfterFetches("trend_regime")
    /\ Len(klines4h) >= 200
    /\ Len(klines15m) >= 50
    /\ IsNum(locals.ema200)
    /\ IsNum(locals.ema200Prev)
    /\ Gt(locals.ema200, locals.ema200Prev)
    /\ Gt(locals.currentAdx, Int2V(25))
    /\ Gt(locals.price, locals.ema20)

\* the rise of the EMA200 over the latest bar exceeds 0.05 percent
C9_SteepEnough ==
    Gt(Mul(Div(Sub(locals.ema200, locals.ema200Prev), locals.ema200Prev), Int2V(100)),
       Num(5, 100))

\* the result is a LONG STRONG_TREND signal with rr = 2.0
C9_StrongLong ==
    /\ result.kind = "signal"
    /\ result.direction = "LONG"
    /\ result.regime = "STRONG_TREND"
    /\ result.rr = Int2V(2)

\* C9 as stated: in that scenario the result is LONG, STRONG_TREND with rr = 2.0.
C9_RisingEmaStrongLong == C9_Scenario => C9_StrongLong

\* C9 amended: in that scenario, if moreover the EMA200 rises by more than 0.05
\* percent over the latest bar, the result is LONG, STRONG_TREND with rr = 2.0.
C9_SteepEmaStrongLong == C9_Scenario /\ C9_SteepEnough => C9_StrongLong

\* the amended scenario has occurred
C9_SteepScenario == C9_Scenario /\ C9_SteepEnough /\ C9_StrongLong

\* the structural-reversal strategy found both the 4h and the 1h trend RANGE
C10_BothRange ==
    /\ SettledAfterFetches("structural_reversal")
    /\ interval = "1h"
    /\ Len(klines4h) > 0
    /\ structAfter4h(klines4h).trend = "RANGE"
    /\ structAfter1h(klines1h).trend = "RANGE"

\* the latest 4h ATR(14), 0 when there is none
C10_Atr ==
    OrZero(Pop(calculateATR(Highs(klines4h), Lows(klines4h), Closes(klines4h), 14)))

\* the latest 4h close is less than one ATR away from the upper (lower) boundary
C10_NearHigh ==
    Lt(MathAbs(Sub(klines4h[Len(klines4h)].close, rangeBounds(klines4h).rangeHigh)), C10_Atr)

C10_NearLow ==
    Lt(MathAbs(Sub(klines4h[Len(klines4h)].close, rangeBounds(klines4h).rangeLow)), C10_Atr)

\* C10: with both trends RANGE, a price within one ATR of the last swing high gives
\* LIQUIDITY_SWEEP_HIGH and SHORT, also when it is within one ATR of the last swing low;
\* LIQUIDITY_SWEEP_LOW (LONG) is given only near the low and not near the high, and
\* RANGE_WAITING, with zeroed levels, only near neither.
C10_SweepPriority ==
    C10_BothRange =>
        /\ result.kind = "signal"
        /\ result.regime \in {"LIQUIDITY_SWEEP_HIGH", "LIQUIDITY_SWEEP_LOW", "RANGE_WAITING"}
        /\ C10_NearHigh =>
               result.regime = "LIQUIDITY_SWEEP_HIGH" /\ result.direction = "SHORT"
        /\ result.regime = "LIQUIDITY_SWEEP_LOW" =>
               C10_NearLow /\ ~C10_NearHigh /\ result.direction = "LONG"
        /\ result.regime = "RANGE_WAITING" =>
               ~C10_NearHigh /\ ~C10_NearLow /\ Zeroed(result)

\* the price was near both boundaries and the result is the sweep of the high
C10_NearBoth ==
    /\ C10_BothRange
    /\ C10_NearHigh
    /\ C10_NearLow
    /\ result.regime = "LIQUIDITY_SWEEP_HIGH"
    /\ result.direction = "SHORT"

\* the structural-reversal strategy found an impulse and returned after its 15m fetch
C11_AfterPrz ==
    /\ SettledAfterFetches("structural_reversal")
    /\ interval = "15m"
    /\ caught = "none"

C11_Direction == activeTrend(klines4h, klines1h).direction

C11_Impulse == activeImpulse(klines4h, klines1h)

C11_Prz == calculatePRZ(C11_Impulse.low, C11_Impulse.high, C11_Direction)

\* the latest 15m close lies between the two bounds of the PRZ
C11_InPrz ==
    /\ Ge(klines15m[Len(klines15m)].close, Min2(C11_Prz.prz_low, C11_Prz.prz_high))
    /\ Le(klines15m[Len(klines15m)].close, Max2(C11_Prz.prz_low, C11_Prz.prz_high))

\* a long (short) reversal is confirmed by a divergence or by an engulfing bar
C11_LongConfirmed ==
    detectDivergence(klines15m) = "BULLISH_DIV" \/ detectEngulfing(klines15m).bullish

C11_ShortConfirmed ==
    detectDivergence(klines15m) = "BEARISH_DIV" \/ detectEngulfing(klines15m).bearish

C11_Reversal(side) ==
    /\ result.regime = "PRZ_REVERSAL_" \o activeTrend(klines4h, klines1h).trend
    /\ result.direction = side

\* C11: once an impulse and a PRZ exist the result is PRZ_REVERSAL_<trend> LONG iff the
\* direction is UP, the price is inside the PRZ and a bullish divergence or engulfing
\* holds, PRZ_REVERSAL_<trend> SHORT iff the mirror condition holds, and otherwise a
\* waiting signal with rr = 0, the PRZ bounds as entry, stop and target from the
\* impulse, named PRZ_WAITING_SIGNAL inside the PRZ and WAITING_FOR_PRZ outside; every
\* result whose regime contains WAITING is a signal with rr = 0.
C11_PrzDecision ==
    /\ C11_AfterPrz =>
        /\ result.kind = "signal"
        /\ C11_Reversal("LONG") <=> (C11_Direction = "UP" /\ C11_InPrz /\ C11_LongConfirmed)
        /\ C11_Reversal("SHORT") <=>
               (C11_Direction = "DOWN" /\ C11_InPrz /\ C11_ShortConfirmed)
        /\ ~C11_Reversal("LONG") /\ ~C11_Reversal("SHORT") =>
               /\ result.regime = IF C11_InPrz THEN "PRZ_WAITING_SIGNAL" ELSE "WAITING_FOR_PRZ"
               /\ result.rr = Int2V(0)
               /\ result.entry_low = C11_Prz.prz_low
               /\ result.entry_high = C11_Prz.prz_high
               /\ result.stop = IF C11_Direction = "UP" THEN C11_Impulse.low
                                ELSE C11_Impulse.high
               /\ result.target = IF C11_Direction = "UP" THEN C11_Impulse.high
                                  ELSE C11_Impulse.low
    /\ result.regime \in {"RANGE_WAITING", "PRZ_WAITING_SIGNAL", "WAITING_FOR_PRZ"} =>
           result.kind = "signal" /\ result.rr = Int2V(0)

\* a long reversal was confirmed by a divergence alone
C11_DivergenceOnly ==
    /\ C11_AfterPrz
    /\ C11_Reversal("LONG")
    /\ detectDivergence(klines15m) = "BULLISH_DIV"
    /\ ~detectEngulfing(klines15m).bullish

\* the high of bar i is the maximum of the highs of the bars i-n .. i+n
C12_WindowMaximum(klines, i, n) ==
    \A j \in (i - n)..(i + n) : Le(klines[j + 1].high, klines[i + 1].high)

C12_WindowMinimum(klines, i, n) ==
    \A j \in (i - n)..(i + n) : Ge(klines[j + 1].low, klines[i + 1].low)

\* C12: getSwingPoints(klines, n) flags the index i as a swing high iff n <= i < length - n
\* and the high of bar i equals the maximum high over the indices i-n .. i+n, and as a
\* swing low iff the same holds of its low and the minimum low; so no index within n of
\* either end is flagged, and bars that tie for their window maximum are each flagged.
C12_SwingPoints ==
    call.fn = "getSwingPoints" =>
        /\ Len(call.out.highs) = Len(call.klines)
        /\ Len(call.out.lows) = Len(call.klines)
        /\ \A i \in 0..(Len(call.klines) - 1) :
              /\ call.out.highs[i + 1] <=>
                    /\ call.n <= i /\ i < Len(call.klines) - call.n
                    /\ C12_WindowMaximum(call.klines, i, call.n)
              /\ call.out.lows[i + 1] <=>
                    /\ call.n <= i /\ i < Len(call.klines) - call.n
                    /\ C12_WindowMinimum(call.klines, i, call.n)

\* two neighbouring bars tie for the maximum of their windows and both are swing highs,
\* while a bar next to the end of the series has the highest high and is not
C12_TiedHighs ==
    /\ call.fn = "getSwingPoints"
    /\ \E i \in 1..(Len(call.klines) - 1) :
          /\ call.klines[i + 1].high = call.klines[i].high
          /\ call.out.highs[i + 1] /\ call.out.highs[i]
    /\ \E i \in {0, Len(call.klines) - 1} :
          /\ \A j \in 0..(Len(call.klines) - 1) :
                Le(call.klines[j + 1].high, call.klines[i + 1].high)
          /\ ~call.out.highs[i + 1]

\* C13: swing highs and swing lows are disjoint: getSwingPoints never flags the same
\* index both as a swing high and as a swing low.
C13_DisjointFlags ==
    call.fn = "getSwingPoints" =>
        \A i \in 1..Len(call.klines) : ~(call.out.highs[i] /\ call.out.lows[i])

\* the flagged indices, the latest of them and the one before it
C14_Flagged(flags) == {i \in 1..Len(flags) : flags[i]}

C14_Latest(S) == CHOOSE i \in S : \A j \in S : j <= i

C14_Previous(S) == C14_Latest(S \ {C14_Latest(S)})

\* there are two swing highs and two swing lows
C14_TwoEach ==
    /\ Cardinality(C14_Flagged(call.swings.highs)) >= 2
    /\ Cardinality(C14_Flagged(call.swings.lows)) >= 2

\* the latest swing high minus its predecessor, and the same for the swing lows
C14_HighStep ==
    Sub(call.klines[C14_Latest(C14_Flagged(call.swings.highs))].high,
        call.klines[C14_Previous(C14_Flagged(call.swings.highs))].high)

C14_LowStep ==
    Sub(call.klines[C14_Latest(C14_Flagged(call.swings.lows))].low,
        call.klines[C14_Previous(C14_Flagged(call.swings.lows))].low)

\* C14: detectTrend returns exactly one of BULLISH, BEARISH and RANGE: BULLISH with the
\* direction UP iff there are at least two swing highs and two swing lows and the latest
\* swing high and the latest swing low are each strictly greater than their
\* predecessor; BEARISH with the direction DOWN iff both are strictly lower; RANGE with
\* the direction null in every other case, among them fewer than two swing highs or
\* swing lows and equal values.
C14_TrendOfSwings ==
    call.fn = "detectTrend" =>
        /\ <<call.out.trend, call.out.direction>>
               \in {<<"BULLISH", "UP">>, <<"BEARISH", "DOWN">>, <<"RANGE", "null">>}
        /\ call.out.trend = "BULLISH" <=>
               C14_TwoEach /\ Sign(C14_HighStep) = 1 /\ Sign(C14_LowStep) = 1
        /\ call.out.trend = "BEARISH" <=>
               C14_TwoEach /\ Sign(C14_HighStep) = -1 /\ Sign(C14_LowStep) = -1

\* a rising pair of swing highs and a rising pair of swing lows gave BULLISH
C14_Bullish ==
    /\ call.fn = "detectTrend"
    /\ call.out.trend = "BULLISH"
    /\ C14_TwoEach

\* two swing highs and two swing lows, the swing highs equal: RANGE
C14_EqualHighs ==
    /\ call.fn = "detectTrend"
    /\ C14_TwoEach
    /\ Sign(C14_HighStep) = 0
    /\ call.out.trend = "RANGE"

\* the RSI(14) of the bar at the position i of the series of the call
C15_Rsi(i) == At(calculateRSI(Closes(call.klines), RSI_PERIOD), i - 1)

\* the value at the position i is higher than the value at the position j
C15_HigherRsi(i, j) ==
    /\ IsNum(C15_Rsi(i)) /\ IsNum(C15_Rsi(j))
    /\ Sign(Sub(C15_Rsi(i), C15_Rsi(j))) = 1

\* the latest swing low is lower than the one before it and its RSI is higher
C15_LowerLowHigherRsi(lows) ==
    /\ Cardinality(lows) >= 2
    /\ Sign(Sub(call.klines[C14_Latest(lows)].low, call.klines[C14_Previous(lows)].low)) = -1
    /\ C15_HigherRsi(C14_Latest(lows), C14_Previous(lows))

\* the latest swing high is higher than the one before it and its RSI is lower
C15_HigherHighLowerRsi(highs) ==
    /\ Cardinality(highs) >= 2
    /\ Sign(Sub(call.klines[C14_Latest(highs)].high,
                call.klines[C14_Previous(highs)].high)) = 1
    /\ C15_HigherRsi(C14_Previous(highs), C14_Latest(highs))

\* C15: detectDivergence reports a bullish divergence iff there are at least two swing
\* lows and the most recent one has a lower low and a higher RSI(14) than the previous
\* one, a bearish divergence iff there are at least two swing highs and the most recent
\* one has a higher high and a lower RSI(14) than the previous one, and none otherwise.
C15_Divergence ==
    call.fn = "detectDivergence" =>
        /\ call.out \in {"BULLISH_DIV", "BEARISH_DIV", "null"}
        /\ call.out = "BULLISH_DIV" <=>
               C15_LowerLowHigherRsi(C14_Flagged(getSwingPoints(call.klines, SWING_N).lows))
        /\ call.out = "BEARISH_DIV" <=>
               C15_HigherHighLowerRsi(C14_Flagged(getSwingPoints(call.klines, SWING_N).highs))

\* a bullish divergence is reported although the earlier swing low has no RSI
C15_NoEarlierRsi ==
    /\ call.fn = "detectDivergence"
    /\ call.out = "BULLISH_DIV"
    /\ C15_Rsi(C14_Previous(C14_Flagged(getSwingPoints(call.klines, SWING_N).lows))) = Null

\* the previous and the last bar of the series of the call
C16_Prev == call.klines[Len(call.klines) - 1]

C16_Last == call.klines[Len(call.klines)]

\* a is below b
C16_Below(a, b) == Sign(Sub(a, b)) = -1

\* C16: detectEngulfing looks only at the last two bars: bullish iff prev.close <
\* prev.open, last.close > last.open, last.close > prev.open and last.open < prev.close,
\* bearish iff the mirror condition; the two flags are never both true; and the bars
\* 100 -> 95, 94 -> 102 give bullish = true, bearish = false.
C16_Engulfing ==
    call.fn = "detectEngulfing" =>
        /\ call.out.bullish <=>
               /\ C16_Below(C16_Prev.close, C16_Prev.open)
               /\ C16_Below(C16_Last.open, C16_Last.close)
               /\ C16_Below(C16_Prev.open, C16_Last.close)
               /\ C16_Below(C16_Last.open, C16_Prev.close)
        /\ call.out.bearish <=>
               /\ C16_Below(C16_Prev.open, C16_Prev.close)
               /\ C16_Below(C16_Last.close, C16_Last.open)
               /\ C16_Below(C16_Prev.close, C16_Last.open)
               /\ C16_Below(C16_Last.close, C16_Prev.open)
        /\ ~(call.out.bullish /\ call.out.bearish)
        /\ call.klines = ExampleCandles => call.out.bullish /\ ~call.out.bearish

\* the function was applied to the two bars of the example
C16_Example ==
    /\ call.fn = "detectEngulfing"
    /\ call.klines = ExampleCandles
    /\ call.out = [bullish |-> TRUE, bearish |-> FALSE]

\* calculateRSI was applied to at least period + 1 values
C17_EnoughValues == call.fn = "calculateRSI" /\ Len(call.data) >= call.period + 1

\* no close of the seed window 1..period lies below the close before it
C17_NoLossInSeed ==
    \A i \in 1..call.period :
        Sign(Sub(call.data[i + 1].close, call.data[i].close)) >= 0

\* C17: every defined value of calculateRSI lies in [0, 100] for every series of at
\* least period + 1 values, and the seed value at the index period is exactly 100
\* whenever all deltas over the indices 1..period are non-negative, a flat seed window
\* included.
C17_RsiRange ==
    C17_EnoughValues =>
        /\ \A i \in 1..Len(call.out[1]) :
              \/ call.out[1][i] = Null
              \/ /\ IsNum(call.out[1][i])
                 /\ Sign(call.out[1][i]) >= 0
                 /\ Sign(Sub(Int2V(100), call.out[1][i])) >= 0
        /\ C17_NoLossInSeed => call.out[1][call.period + 1] = Int2V(100)

\* a seed window without a loss gave 100, and a later loss a value strictly between 0
\* and 100
C17_SeedThenLoss ==
    /\ C17_EnoughValues
    /\ C17_NoLossInSeed
    /\ call.out[1][call.period + 1] = Int2V(100)
    /\ \E i \in 1..Len(call.out[1]) :
          /\ IsNum(call.out[1][i])
          /\ Sign(call.out[1][i]) = 1
          /\ Sign(Sub(Int2V(100), call.out[1][i])) = 1

\* the sum of the first m closes of the series of the call, an integer
RECURSIVE C18_Total(_)
C18_Total(m) == IF m = 0 THEN 0 ELSE C18_Total(m - 1) + call.data[m].close.n

\* the value at the index i follows from the close at i and the value at i - 1
C18_Recurrence(i) ==
    At(call.out[1], i) =
        Add(Mul(call.data[i + 1].close, Num(2, call.period + 1)),
            Mul(At(call.out[1], i - 1), Num(call.period - 1, call.period + 1)))

C19_Upper(i) == call.out[1][i]

C19_Lower(i) == call.out[2][i]

C19_Middle(i) == call.out[3][i]

\* C19: for all inputs every defined calculateATR value is >= 0, also when a bar has its
\* high below its low, and the half-width of the Bollinger bands, upper - middle =
\* middle - lower, is >= 0 at every defined index for a non-negative multiplier.
C19_NonNegative ==
    /\ call.fn = "calculateATR" =>
           \A i \in 1..Len(call.out[1]) :
               call.out[1][i] \in {Null, Undef} \/ Ge(call.out[1][i], Int2V(0))
    /\ call.fn = "calculateBollingerBands" =>
           \A i \in 1..Len(call.out[1]) :
               \/ C19_Upper(i) = Null /\ C19_Lower(i) = Null
               \/ /\ Ge(Sub(C19_Upper(i), C19_Middle(i)), Int2V(0))
                  /\ Sub(C19_Upper(i), C19_Middle(i)) = Sub(C19_Middle(i), C19_Lower(i))

\* no value of calculateATR is negative and no half-width of the bands is: what remains
\* of C19 when a NaN written beyond a short input is set aside
C19_NeverNegative ==
    /\ call.fn = "calculateATR" =>
           \A i \in 1..Len(call.out[1]) : ~Lt(call.out[1][i], Int2V(0))
    /\ call.fn = "calculateBollingerBands" =>
           \A i \in 1..Len(call.out[1]) :
               \/ C19_Upper(i) = Null /\ C19_Lower(i) = Null
               \/ /\ Ge(Sub(C19_Upper(i), C19_Middle(i)), Int2V(0))
                  /\ Sub(C19_Upper(i), C19_Middle(i)) = Sub(C19_Middle(i), C19_Lower(i))

\* ATR over bars with the high below the low, at least period + 1 of them
C19_InvertedBars ==
    /\ call.fn = "calculateATR"
    /\ Len(call.data) >= call.period + 1
    /\ \A i \in 1..Len(call.data) : Lt(call.data[i].high, call.data[i].low)
    /\ Gt(call.out[1][Len(call.data)], Int2V(0))

\* bands of a positive width
C19_WideBands ==
    /\ call.fn = "calculateBollingerBands"
    /\ \E i \in 1..Len(call.out[1]) :
          C19_Upper(i) # Null /\ Gt(Sub(C19_Upper(i), C19_Middle(i)), Int2V(0))

\* calculateADX was applied to at least 2 * period bars
C20_EnoughBars == call.fn = "calculateADX" /\ Len(call.data) >= 2 * call.period

\* C20: calculateADX handles degenerate inputs with a sentinel instead of a division
\* fault: for every input of at least 2 * period bars, a completely flat series whose
\* true range is zero on every bar included, every DX value used is a number (0 when
\* +DI and -DI sum to zero, so that nothing is divided by zero) and every ADX value
\* from the index 2 * period - 1 on is a defined number.
C20_DefinedAdx ==
    C20_EnoughBars =>
        /\ \A i \in call.period..(Len(call.data) - 1) : IsNum(At(call.dx, i))
        /\ \A i \in (2 * call.period - 1)..(Len(call.data) - 1) : IsNum(At(call.out[1], i))

\* a series of bars that have a range and do not move: DX and ADX are 0
C20_FlatWithRange ==
    /\ C20_EnoughBars
    /\ \A i \in 1..Len(call.data) :
          call.data[i].close = call.data[1].close /\ Lt(call.data[i].low, call.data[i].high)
    /\ At(call.out[1], Len(call.data) - 1) = Int2V(0)

\* a completely flat series: the true range is zero on every bar and the ADX is NaN
C20_FlatZeroRange ==
    /\ C20_EnoughBars
    /\ \A i \in 1..Len(call.data) : call.data[i] = ZeroRange(call.data[1].close.n)
    /\ At(call.out[1], Len(call.data) - 1) = NaN

\* the first index at which the MACD line of the call is defined, and the first index
\* at which its signal line is
C21_MacdStart ==
    (IF call.period > call.slowPeriod THEN call.period ELSE call.slowPeriod) - 1

C21_SignalStart == C21_MacdStart + call.signalPeriod - 1

\* the MACD line, the signal line and the histogram of the call
C21_Macd == call.out[1]

C21_Signal == call.out[2]

C21_Histogram == call.out[3]

\* the EMA(signalPeriod) of the defined suffix of the MACD line
C21_SuffixEma ==
    calculateEMA(Slice(C21_Macd, C21_MacdStart, Len(C21_Macd)), call.signalPeriod)

\* C21: calculateMACD keeps index alignment: the macd line is defined exactly at the
\* indices >= max(fast, slow) - 1, the signal line is the EMA(signalPeriod) of the
\* defined macd suffix shifted back by the original offset, so it is defined exactly
\* at the indices >= max(fast, slow) - 1 + signalPeriod - 1, and the histogram is
\* defined exactly where both are and equals macd - signal there.
C21_MacdAlignment ==
    call.fn = "calculateMACD" =>
        \A i \in 0..(Len(call.data) - 1) :
            /\ IsNum(At(C21_Macd, i)) <=> i >= C21_MacdStart
            /\ ~IsNum(At(C21_Macd, i)) => At(C21_Macd, i) = Null
            /\ IsNum(At(C21_Signal, i)) <=> i >= C21_SignalStart
            /\ ~IsNum(At(C21_Signal, i)) => At(C21_Signal, i) = Null
            /\ i >= C21_MacdStart => At(C21_Signal, i) = At(C21_SuffixEma, i - C21_MacdStart)
            /\ IsNum(At(C21_Histogram, i)) <=> IsNum(At(C21_Macd, i)) /\ IsNum(At(C21_Signal, i))
            /\ ~IsNum(At(C21_Histogram, i)) => At(C21_Histogram, i) = Null
            /\ IsNum(At(C21_Histogram, i)) =>
                   At(C21_Histogram, i) = Sub(At(C21_Macd, i), At(C21_Signal, i))

\* a MACD whose signal line starts after its macd line, with a histogram that is not 0
C21_LateSignal ==
    /\ call.fn = "calculateMACD"
    /\ C21_MacdStart >= 1
    /\ C21_SignalStart > C21_MacdStart
    /\ Len(call.data) > C21_SignalStart + 1
    /\ Sign(At(C21_Histogram, Len(call.data) - 1)) # 0

\* the trend-regime strategy returned a signal of its RANGE branch
C22_RangeSignal ==
    /\ SettledAfterFetches("trend_regime")
    /\ result.kind = "signal"
    /\ RegimeIncludes(result.regime, "RANGE")

\* the trade the RANGE branch makes of the returned zone reflected about the price 0:
\* the long side for a SHORT result and the short side for a LONG result
C22_Mirrored ==
    IF result.direction = "SHORT"
    THEN rangeLong(Neg(result.entry_high), Neg(result.entry_low), locals.atr, result.rr)
    ELSE rangeShort(Neg(result.entry_high), Neg(result.entry_low), locals.atr, result.rr)

\* how far the target lies beyond the edge of the zone on the profit side
C22_Reach(short, entry_low, entry_high, target) ==
    IF short THEN Sub(entry_low, target) ELSE Sub(target, entry_high)

\* C22: in the RANGE branch of the trend-regime strategy the sell zone and the buy zone
\* are handled as mirror images: the stop is exactly one ATR beyond the far edge of the
\* chosen zone, rr is 1.5, and the target lies as far beyond the zone edge on the
\* profit side for a SHORT as for the mirrored LONG.
C22_RangeMirror ==
    C22_RangeSignal =>
        /\ result.rr = Num(15, 10)
        /\ result.direction = "SHORT" => result.stop = Add(result.entry_high, locals.atr)
        /\ result.direction = "LONG" => result.stop = Sub(result.entry_low, locals.atr)
        /\ C22_Mirrored.stop = Neg(result.stop)
        /\ C22_Reach(C22_Mirrored.direction = -1, C22_Mirrored.entry_low,
                     C22_Mirrored.entry_high, C22_Mirrored.target)
               = C22_Reach(result.direction = "SHORT", result.entry_low, result.entry_high,
                           result.target)

\* what holds of the RANGE branch on both sides: the stop one ATR beyond the far edge
\* and rr = 1.5
C22_StopAndRr ==
    C22_RangeSignal =>
        /\ result.rr = Num(15, 10)
        /\ result.direction = "SHORT" => result.stop = Add(result.entry_high, locals.atr)
        /\ result.direction = "LONG" => result.stop = Sub(result.entry_low, locals.atr)

C23_Invocations == {Frame, Suspended}

\* what the strategy returns when it runs alone on the arguments and the series of f
C23_Alone(f) ==
    IF f.strategyId = "trend_regime"
    THEN runTrendRegimeStrategy(f.symbol, f.klines4h, f.klines15m).result
    ELSE IF structAfter4h(f.klines4h).trend = "RANGE"
            /\ structAfter1h(f.klines1h).trend = "RANGE"
    THEN sweepResult(f.symbol, f.klines4h)
    ELSE IF activeImpulse(f.klines4h, f.klines1h).isNull
    THEN noImpulseResult(f.symbol, f.klines4h, f.klines1h)
    ELSE przResult(f.symbol, f.klines4h, f.klines1h, f.klines15m)

C23_Settled(f) == f.pc = "settled" /\ f.result.kind = "signal"

\* C23: with two invocations of runStrategy interleaved at their awaits, each one that
\* has settled holds the result the strategy computes alone from its own symbol and its
\* own series, and an invocation that has not been made holds nothing
C23_Independent ==
    \A f \in C23_Invocations :
        /\ C23_Settled(f) =>
              /\ f.result = runStrategySettle(C23_Alone(f)).result
              /\ f.result.symbol = f.symbol
        /\ f.pc = "idle" => f = IdleFrame

\* C23 witness: a structural-reversal run has settled on one symbol while a trend-regime
\* run on the other symbol, started on different series, is past its first fetch
C23_Interleaved ==
    /\ C23_Settled(Frame)
    /\ strategyId = "structural_reversal"
    /\ call # NoCall
    /\ call.strategyId = "trend_regime"
    /\ call.symbol # symbol
    /\ call.pc = "fetching"
    /\ call.interval = "15m"
    /\ call.klines4h # klines4h

C24_Actionable ==
    /\ strategyId = "structural_reversal"
    /\ result.kind = "signal"
    /\ result.regime \in {"LIQUIDITY_SWEEP_HIGH", "LIQUIDITY_SWEEP_LOW",
                          "PRZ_REVERSAL_BULLISH", "PRZ_REVERSAL_BEARISH"}

\* C24: every actionable structural-reversal result has a non-negative finite rr, and
\* LONG has stop < entry_low and target > entry_high, SHORT has stop > entry_high and
\* target < entry_low.
C24_StopTargetRr ==
    C24_Actionable =>
        /\ IsFinite(result.rr) /\ Ge(result.rr, Int2V(0))
        /\ result.direction = "LONG" =>
               Lt(result.stop, result.entry_low) /\ Gt(result.target, result.entry_high)
        /\ result.direction = "SHORT" =>
               Gt(result.stop, result.entry_high) /\ Lt(result.target, result.entry_low)

\* the strategy has called findImpulse: it went on to the 15m fetch or returned NO_IMPULSE
C25_ReachedFindImpulse ==
    /\ strategyId = "structural_reversal"
    /\ interval = "15m" \/ result.regime = "NO_IMPULSE"

C25_Active == activeTrend(klines4h, klines1h)

\* C25: whenever runStructuralReversalStrategy has reached findImpulse, the trend of the
\* active timeframe is BULLISH or BEARISH on at least two swing highs and two swing
\* lows, the direction is UP or DOWN, the impulse is not null, and no result has the
\* regime NO_IMPULSE.
C25_NoImpulseUnreachable ==
    /\ result.regime # "NO_IMPULSE"
    /\ C25_ReachedFindImpulse =>
          /\ C25_Active.trend \in {"BULLISH", "BEARISH"}
          /\ C25_Active.direction \in {"UP", "DOWN"}
          /\ Len(FilterByFlag(C25_Active.klines, C25_Active.swingHighs)) >= 2
          /\ Len(FilterByFlag(C25_Active.klines, C25_Active.swingLows)) >= 2
          /\ ~activeImpulse(klines4h, klines1h).isNull

\* C25 witness: the 4h trend is RANGE, the 1h trend is BEARISH, and the strategy has
\* gone past findImpulse into the 15m fetch
C25_BearishOn1h ==
    /\ C25_ReachedFindImpulse
    /\ structAfter4h(klines4h).trend = "RANGE"
    /\ C25_Active.trend = "BEARISH"
    /\ C25_Active.klines = klines1h

\* the trend-regime strategy has returned a result on a 4h series of exactly 200 bars
C26_ExactlyEnough ==
    /\ strategyId = "trend_regime"
    /\ pc = "settled"
    /\ result.kind = "signal"
    /\ Len(klines4h) = MIN_BARS_4H

C26_Ema200 == calculateEMA(Closes(klines4h), EMA_REGIME_PERIOD)

\* C26: with exactly 200 4h bars the EMA200 is defined at the last index only, the
\* previous EMA200 is undefined, the slope is 0, and the result is never STRONG_TREND
\* and never has rr = 2.0.
C26_NeverStrongTrend ==
    C26_ExactlyEnough =>
        /\ \A i \in 0..(MIN_BARS_4H - 2) : ~IsNum(At(C26_Ema200, i))
        /\ IsNum(At(C26_Ema200, MIN_BARS_4H - 1))
        /\ locals.ema200 = At(C26_Ema200, MIN_BARS_4H - 1)
        /\ ~IsNum(locals.ema200Prev)
        /\ locals.slope = Int2V(0)
        /\ locals.regime # "STRONG_TREND"
        /\ result.regime # "STRONG_TREND"
        /\ result.rr # Int2V(2)

\* C26 witness: exactly 200 rising 4h bars with an ADX above 25
C26_HighAdx ==
    /\ C26_ExactlyEnough
    /\ Gt(locals.currentAdx, Int2V(25))
    /\ Gt(At(Closes(klines4h), MIN_BARS_4H - 1), At(Closes(klines4h), 0))
    /\ result.regime = "WEAK_TREND"

\* the error of the Binance endpoint k
C27_ErrorOf(k) == "binance" \o ToString(k)

\* a failed Binance endpoint is followed by the next one of the list, and lastError
\* changes only to the error that endpoint threw
C27_NextEndpoint ==
    pc = "fetching" /\ pc' = "fetching" =>
        /\ ep < NUM_BINANCE
        /\ ep' = ep + 1
        /\ lastError' \in {lastError, C27_ErrorOf(ep)}
        /\ lastError \in {"undefined"} \cup {C27_ErrorOf(k) : k \in 0..(ep - 1)}

\* an answer ends the call with the bars of the endpoint that gave it, and the next
\* call starts at the first endpoint again with no error
C27_FirstOk ==
    /\ pc = "fetching" /\ pc' = "fetched" =>
          /\ fetched' \in Pool(strategyId, interval)
          /\ ep \in 0..NUM_BINANCE
    /\ pc # "fetching" /\ pc' = "fetching" => ep' = 0 /\ lastError' = "undefined"

\* the call throws only out of the KuCoin fallback, and throws the last Binance error
C27_Throws ==
    pc = "fetching" /\ pc' = "settled" =>
        /\ ep = NUM_BINANCE
        /\ caught' = IF lastError = "undefined" THEN "All endpoints failed" ELSE lastError

\* C27: fetchKlinesWithFallback contacts the six Binance endpoints in list order, each
\* at most once, and returns the bars of the first that answers ok; KuCoin is contacted
\* only after all six have failed, once; if it fails the call throws the last error a
\* Binance endpoint threw, or 'All endpoints failed' when none threw.
C27_EndpointOrder == [][C27_NextEndpoint /\ C27_FirstOk /\ C27_Throws]_vars

\* C27 witness: the fallback failed after the endpoints 0..3 threw and the endpoints 4
\* and 5 answered with a status that is not ok
C27_LastThrown == pc = "settled" /\ caught = C27_ErrorOf(3)

C28_Rank(iv) == IF iv = "4h" THEN 1 ELSE IF iv = "1h" THEN 2 ELSE 3

\* the structural-reversal strategy calls fetchKlinesWithFallback
C28_StartsFetch ==
    pc # "fetching" /\ pc' = "fetching" /\ strategyId' = "structural_reversal"

\* the first fetch of an invocation is the 4h one, every later one is of a later timeframe
C28_Order ==
    C28_StartsFetch =>
        IF pc = "fetched" THEN C28_Rank(interval') > C28_Rank(interval)
        ELSE interval' = "4h"

\* after the 4h fetch the 1h series is requested iff the 4h trend is RANGE
C28_OneHourIffRange ==
    strategyId = "structural_reversal" /\ pc = "fetched" /\ interval = "4h" =>
        (pc' = "fetching" /\ interval' = "1h" <=> structAfter4h(fetched).trend = "RANGE")

\* the 15m series is requested with a trend adopted and an impulse found
C28_FifteenAfterImpulse ==
    C28_StartsFetch /\ interval' = "15m" =>
        /\ activeTrend(klines4h', klines1h').trend \in {"BULLISH", "BEARISH"}
        /\ ~activeImpulse(klines4h', klines1h').isNull

\* a sweep or RANGE_WAITING result is returned after the 1h fetch, without any 15m series
C28_NoFetchOnSweep ==
    /\ strategyId' = "structural_reversal"
    /\ result'.regime \in {"LIQUIDITY_SWEEP_HIGH", "LIQUIDITY_SWEEP_LOW", "RANGE_WAITING"}
    => interval' = "1h" /\ klines15m' = <<>>

\* C28: a structural-reversal invocation fetches 4h, then 1h iff the 4h trend is RANGE,
\* then 15m only with a trend adopted and an impulse found, each at most once, and no
\* 15m series on the LIQUIDITY_SWEEP_HIGH, LIQUIDITY_SWEEP_LOW and RANGE_WAITING paths.
C28_FetchOrder ==
    [][C28_Order /\ C28_OneHourIffRange /\ C28_FifteenAfterImpulse /\ C28_NoFetchOnSweep]_vars

\* C28 witness: a result returned after all three fetches, the 1h series being the
\* active one
C28_ThreeFetches ==
    /\ strategyId = "structural_reversal"
    /\ pc = "settled"
    /\ result.kind = "signal"
    /\ interval = "15m"
    /\ structAfter4h(klines4h).trend = "RANGE"
    /\ klines1h # <<>>
    /\ klines15m # <<>>

C29_Hook == call.fn = "useKlines"

\* the fetch of r completes in this step
C29_Completes(r) == r \in call.inFlight /\ r \notin call'.inFlight

\* when the fetch of a cleaned-up effect completes, data, error and loading stay as
\* they are
C29_CleanedUpNeverUpdates ==
    \A r \in call.inFlight :
        C29_Completes(r) /\ ~r.isMounted =>
            /\ call'.data = call.data
            /\ call'.error = call.error
            /\ call'.loading = call.loading

\* loading becomes false through the completion of the most recent request only
C29_LoadingEndsWithLatest ==
    call.loading /\ ~call'.loading =>
        \E r \in call.inFlight :
            C29_Completes(r) /\ r.id = call.started /\ r.key = call.key

\* once the most recent request has returned bars, they are the data held
C29_Loaded == ~call.loading /\ call.error = "null" => call.data = call.key

C30_App == call.fn = "App"

\* isStrategyRunning is true exactly from the click to the resumption of
\* handleRunStrategy: it turns false only with runStrategy settled, and while it is
\* false no run is in flight
C30_RunningEnds ==
    [][C30_App /\ C30_App' =>
          /\ call.isStrategyRunning /\ ~call'.isStrategyRunning => pc = "settled"
          /\ ~call'.isStrategyRunning => pc' \in {"idle", "settled"}]_vars

\* C30: a non-null strategyResult held by App has the symbol that is selected.
C30_ResultOfSelectedSymbol ==
    C30_App /\ call.strategyResult.kind = "signal" =>
        call.strategyResult.symbol = call.symbol

====
